---------------------------- MODULE Spec2Model ----------------------------
(***************************************************************************)
(* State-machine model of the client-side encryption engine SMPCivicCrypto *)
(* (src/unnamed/part_002, lines 1-437).                                    *)
(*                                                                         *)
(* Values.  A byte buffer (ArrayBuffer, Uint8Array) is a sequence of       *)
(* numbers 0..255.  A JavaScript string is the sequence of its UTF-16 code *)
(* units.  A value that the code inspects with typeof is a record          *)
(* [type, v].  An optional argument is <<>> (null) or <<x>>.               *)
(*                                                                         *)
(* The host's WebCrypto primitives (AES-GCM, PBKDF2, SHA-256, RSA-OAEP,    *)
(* getRandomValues) are not code of the repository.  They are modelled by  *)
(* small computable stand-ins that keep what the engine relies on: the    *)
(* lengths, determinism, tag verification on decryption, and no repeated  *)
(* output of the random source.  The engine's own code (base64 and UTF-8   *)
(* conversions, JSON serialisation, the order of the calls, error          *)
(* propagation, localStorage) is modelled as written.                      *)
(***************************************************************************)
EXTENDS Integers, Sequences, FiniteSets, TLC

\* ------------------------------------------------------------------------
\* Program constants
\* ------------------------------------------------------------------------

\* new Uint8Array(12): the 96-bit IV of AES-GCM
IvLen == 12

\* new Uint8Array(16): the PBKDF2 salt
SaltLen == 16

\* length: 256 (bits) of every AES key, as bytes of raw material
KeyLen == 32

\* modulusLength: 4096 (bits), as bytes of an RSA-OAEP ciphertext
ModulusLen == 512

\* iterations: 100000
Iterations == 100000

\* generateSecureId(length = 32)
SecureIdLen == 32

\* WebCrypto's AES-GCM default tagLength of 128 bits (no tagLength is passed)
TagLen == 16

\* SHA-256 digest length in bytes
DigestLen == 32

\* The host's limit on the number of arguments of one call, which bounds the
\* spread in String.fromCharCode(...bytes).  Real hosts: 65 535 to a few
\* 100 000.  The model scales payload lengths: everything the engine builds
\* itself (keys, wrapped keys, metadata records) is far below the limit, and
\* BulkLen stands for a bulk payload (10 MB) far above it.
MaxCallArgs == 1024

\* ------------------------------------------------------------------------
\* Results and errors
\* ------------------------------------------------------------------------

NoError == [name |-> "", message |-> <<>>]

\* A completed call: its value or the error it threw, and the trace of the
\* calls it made to the host (subtle.*, getRandomValues, localStorage), in
\* the order it made them.
Ok(v) == [ok |-> TRUE, val |-> v, err |-> NoError, trace |-> <<>>]

Fail(name, message) ==
  [ok |-> FALSE, val |-> <<>>, err |-> [name |-> name, message |-> message],
   trace |-> <<>>]

\* an error that passes through a caller unchanged (no try/catch around it)
Rethrow(r) == [ok |-> FALSE, val |-> <<>>, err |-> r.err, trace |-> r.trace]

\* one call to the host
Event(call, key, iv, input, output) ==
  [call |-> call, key |-> key, iv |-> iv, input |-> input, output |-> output]

\* the result r of a host call, recorded as event ev
Traced(ev, r) == [r EXCEPT !.trace = <<ev>>]

\* the result r of a step made after the calls of prefix
After(prefix, r) == [r EXCEPT !.trace = prefix \o @]

\* const v = await r; F(v): an error of r passes through, and the calls
\* F makes come after those of r
Then(r, F(_)) == IF ~r.ok THEN Rethrow(r) ELSE After(r.trace, F(r.val))

\* ------------------------------------------------------------------------
\* Bytes
\* ------------------------------------------------------------------------

Byte == 0..255

Min(a, b) == IF a < b THEN a ELSE b

RECURSIVE Pow(_, _)
Pow(b, e) == IF e = 0 THEN 1 ELSE b * Pow(b, e - 1)

\* bit b (0 = least significant) of byte x
BitOf(x, b) == (x \div Pow(2, b)) % 2

FlipBit(x, b) == IF BitOf(x, b) = 1 THEN x - Pow(2, b) ELSE x + Pow(2, b)

\* the buffer with bit b of its byte i flipped
FlipBufferBit(buf, i, b) == [buf EXCEPT ![i] = FlipBit(buf[i], b)]

\* ------------------------------------------------------------------------
\* base64 (ab2base64, base642ab)
\* ------------------------------------------------------------------------

\* the character code of the base64 digit with value v, as btoa writes it
B64Char(v) ==
  IF v < 26 THEN 65 + v
  ELSE IF v < 52 THEN 97 + (v - 26)
  ELSE IF v < 62 THEN 48 + (v - 52)
  ELSE IF v = 62 THEN 43
  ELSE 47

IsB64Char(c) ==
  \/ c \in 65..90
  \/ c \in 97..122
  \/ c \in 48..57
  \/ c = 43
  \/ c = 47

B64Value(c) ==
  IF c \in 65..90 THEN c - 65
  ELSE IF c \in 97..122 THEN c - 97 + 26
  ELSE IF c \in 48..57 THEN c - 48 + 52
  ELSE IF c = 43 THEN 62
  ELSE 63

PadChar == 61

\* window.btoa(binary): binary is a string whose code units are all below 256
btoa(binary) ==
  IF \E i \in 1..Len(binary) : binary[i] > 255
  THEN Fail("InvalidCharacterError", <<"btoa: character out of range">>)
  ELSE
    LET n == Len(binary)
        at(i) == IF i <= n THEN binary[i] ELSE 0
        quantum(g) == at(3 * g + 1) * 65536 + at(3 * g + 2) * 256 + at(3 * g + 3)
        digit(g, p) == (quantum(g) \div Pow(64, 3 - p)) % 64
        ch(k) ==
          LET g == (k - 1) \div 4
              p == (k - 1) % 4
          IN  IF (p = 2 /\ 3 * g + 2 > n) \/ (p = 3 /\ 3 * g + 3 > n)
              THEN PadChar
              ELSE B64Char(digit(g, p))
    IN  Ok([k \in 1..(4 * ((n + 2) \div 3)) |-> ch(k)])

\* ASCII whitespace, which atob removes first
IsAsciiSpace(c) == c \in {9, 10, 12, 13, 32}

\* window.atob(base64): the forgiving-base64 decode of the HTML standard.
\* The bits of the last digit that do not fill a byte are discarded unchecked.
atob(base64) ==
  LET s0 == SelectSeq(base64, LAMBDA c : ~IsAsciiSpace(c))
      n0 == Len(s0)
      pads == IF n0 % 4 = 0 /\ n0 >= 2 /\ s0[n0] = PadChar
              THEN (IF s0[n0 - 1] = PadChar THEN 2 ELSE 1)
              ELSE 0
      s == SubSeq(s0, 1, n0 - pads)
      n == Len(s)
  IN  IF n % 4 = 1 \/ \E i \in 1..n : ~IsB64Char(s[i])
      THEN Fail("InvalidCharacterError", <<"atob: not correctly encoded">>)
      ELSE
        LET at(i) == IF i <= n THEN B64Value(s[i]) ELSE 0
            quantum(g) == at(4 * g + 1) * 262144 + at(4 * g + 2) * 4096
                          + at(4 * g + 3) * 64 + at(4 * g + 4)
            byte(j) ==
              LET g == (j - 1) \div 3
                  p == (j - 1) % 3
              IN  (quantum(g) \div Pow(256, 2 - p)) % 256
            count == 3 * (n \div 4)
                     + (IF n % 4 = 2 THEN 1 ELSE IF n % 4 = 3 THEN 2 ELSE 0)
        IN  Ok([j \in 1..count |-> byte(j)])

\* String.fromCharCode(...new Uint8Array(buffer)): one argument per byte
\* (line 52); past the host's limit the call throws RangeError
fromCharCodeSpread(buffer) ==
  IF Len(buffer) > MaxCallArgs
  THEN Fail("RangeError", <<"Maximum call stack size exceeded">>)
  ELSE Ok(buffer)

ab2base64(buffer) ==
  LET binary == fromCharCodeSpread(buffer)
  IN  IF ~binary.ok THEN Rethrow(binary) ELSE btoa(binary.val)

base642ab(base64) ==
  LET binary == atob(base64)
  IN  IF ~binary.ok THEN Rethrow(binary)
      ELSE Ok([i \in 1..Len(binary.val) |-> binary.val[i]])

\* ------------------------------------------------------------------------
\* UTF-8 (str2ab, ab2str)
\* ------------------------------------------------------------------------

IsHighSurrogate(u) == u \in 55296..56319

IsLowSurrogate(u) == u \in 56320..57343

ReplacementChar == <<239, 191, 189>>

\* the UTF-8 bytes of code point cp
Utf8Of(cp) ==
  IF cp < 128 THEN <<cp>>
  ELSE IF cp < 2048 THEN <<192 + cp \div 64, 128 + (cp % 64)>>
  ELSE IF cp < 65536
    THEN <<224 + cp \div 4096, 128 + ((cp \div 64) % 64), 128 + (cp % 64)>>
  ELSE <<240 + cp \div 262144, 128 + ((cp \div 4096) % 64),
         128 + ((cp \div 64) % 64), 128 + (cp % 64)>>

\* the concatenation of pieces[lo], ..., pieces[hi]
RECURSIVE Flatten(_, _, _)
Flatten(pieces, lo, hi) ==
  IF lo > hi THEN <<>>
  ELSE IF lo = hi THEN pieces[lo]
  ELSE LET mid == (lo + hi) \div 2
       IN  Flatten(pieces, lo, mid) \o Flatten(pieces, mid + 1, hi)

Concat(pieces) == Flatten(pieces, 1, Len(pieces))

\* the bytes the encoder writes when it reaches code unit i: a surrogate
\* pair is one code point, written at its first unit; a lone surrogate is
\* written as U+FFFD
Utf8EncodeAt(str, i) ==
  LET u == str[i]
  IN  IF IsHighSurrogate(u)
      THEN (IF i < Len(str) /\ IsLowSurrogate(str[i + 1])
            THEN Utf8Of(65536 + (u - 55296) * 1024 + (str[i + 1] - 56320))
            ELSE ReplacementChar)
      ELSE IF IsLowSurrogate(u)
      THEN (IF i > 1 /\ IsHighSurrogate(str[i - 1]) THEN <<>>
            ELSE ReplacementChar)
      ELSE Utf8Of(u)

\* new TextEncoder().encode(str)
str2ab(str) == Concat([i \in 1..Len(str) |-> Utf8EncodeAt(str, i)])

IsCont(b) == b \in 128..191

\* the length of the well-formed UTF-8 sequence that starts at buffer[i],
\* 0 when there is none
Utf8SeqLen(buffer, i) ==
  LET n == Len(buffer)
      b == buffer[i]
      c(k) == IF i + k <= n THEN buffer[i + k] ELSE 0
  IN  IF b < 128 THEN 1
      ELSE IF b \in 194..223 /\ IsCont(c(1)) THEN 2
      ELSE IF b \in 224..239 /\ IsCont(c(1)) /\ IsCont(c(2))
              /\ (b = 224 => c(1) >= 160) /\ (b = 237 => c(1) <= 159) THEN 3
      ELSE IF b \in 240..244 /\ IsCont(c(1)) /\ IsCont(c(2)) /\ IsCont(c(3))
              /\ (b = 240 => c(1) >= 144) /\ (b = 244 => c(1) <= 143) THEN 4
      ELSE 0

\* the UTF-16 code units of code point cp
Utf16Of(cp) ==
  IF cp < 65536 THEN <<cp>>
  ELSE <<55296 + (cp - 65536) \div 1024, 56320 + ((cp - 65536) % 1024)>>

\* whether byte i is inside a well-formed sequence that starts before it
\* (only continuation bytes are, and a lead byte always starts a sequence)
Utf8Covered(buffer, i) ==
  \E k \in 1..3 : i - k >= 1 /\ Utf8SeqLen(buffer, i - k) > k

\* the code units the decoder writes when it reaches byte i: a byte that
\* starts no well-formed sequence becomes U+FFFD (the decoder is not fatal)
Utf8DecodeAt(buffer, i) ==
  LET k == Utf8SeqLen(buffer, i)
      b == buffer[i]
  IN  IF Utf8Covered(buffer, i) THEN <<>>
      ELSE IF k = 0 THEN <<65533>>
      ELSE IF k = 1 THEN <<b>>
      ELSE IF k = 2 THEN <<(b - 192) * 64 + (buffer[i + 1] - 128)>>
      ELSE IF k = 3
        THEN <<(b - 224) * 4096 + (buffer[i + 1] - 128) * 64
               + (buffer[i + 2] - 128)>>
      ELSE Utf16Of((b - 240) * 262144 + (buffer[i + 1] - 128) * 4096
                   + (buffer[i + 2] - 128) * 64 + (buffer[i + 3] - 128))

\* new TextDecoder().decode(buffer): UTF-8, not fatal, and with the default
\* ignoreBOM = false a leading byte order mark is dropped
ab2str(buffer) ==
  LET units == Concat([i \in 1..Len(buffer) |-> Utf8DecodeAt(buffer, i)])
  IN  IF Len(units) > 0 /\ units[1] = 65279 THEN Tail(units) ELSE units

\* ------------------------------------------------------------------------
\* JSON (JSON.stringify, JSON.parse) on the objects the engine serialises
\* ------------------------------------------------------------------------

HexDigit(v) == IF v < 10 THEN 48 + v ELSE 97 + (v - 10)

\* \uXXXX, with lower-case digits
UnicodeEscape(u) ==
  <<92, 117, HexDigit(u \div 4096), HexDigit((u \div 256) % 16),
    HexDigit((u \div 16) % 16), HexDigit(u % 16)>>

\* the text JSON.stringify writes for code unit str[i] of a string
JsonEscape(str, i) ==
  LET u == str[i]
  IN  IF u = 34 THEN <<92, 34>>
      ELSE IF u = 92 THEN <<92, 92>>
      ELSE IF u = 8 THEN <<92, 98>>
      ELSE IF u = 12 THEN <<92, 102>>
      ELSE IF u = 10 THEN <<92, 110>>
      ELSE IF u = 13 THEN <<92, 114>>
      ELSE IF u = 9 THEN <<92, 116>>
      ELSE IF u < 32 THEN UnicodeEscape(u)
      ELSE IF IsHighSurrogate(u)
        THEN (IF i < Len(str) /\ IsLowSurrogate(str[i + 1])
              THEN <<u>> ELSE UnicodeEscape(u))
      ELSE IF IsLowSurrogate(u)
        THEN (IF i > 1 /\ IsHighSurrogate(str[i - 1])
              THEN <<u>> ELSE UnicodeEscape(u))
      ELSE <<u>>

\* JSON.stringify of a string
JsonQuote(str) ==
  <<34>> \o Concat([i \in 1..Len(str) |-> JsonEscape(str, i)]) \o <<34>>

\* JSON.stringify of a natural number
RECURSIVE JsonNumber(_)
JsonNumber(n) ==
  IF n < 10 THEN <<48 + n>> ELSE JsonNumber(n \div 10) \o <<48 + (n % 10)>>

\* "name":value
JsonMember(name, value) == JsonQuote(name) \o <<58>> \o value

RECURSIVE JsonJoin(_, _)
JsonJoin(members, i) ==
  IF i > Len(members) THEN <<>>
  ELSE (IF i > 1 THEN <<44>> ELSE <<>>) \o members[i]
       \o JsonJoin(members, i + 1)

\* JSON.stringify of an object with the given members, in their order
JsonObject(members) == <<123>> \o JsonJoin(members, 1) \o <<125>>

IsJsonSpace(c) == c \in {9, 10, 13, 32}

RECURSIVE SkipSpace(_, _)
SkipSpace(text, i) ==
  IF i <= Len(text) /\ IsJsonSpace(text[i]) THEN SkipSpace(text, i + 1) ELSE i

IsDigit(c) == c \in 48..57

IsHex(c) == c \in 48..57 \/ c \in 97..102 \/ c \in 65..70

HexValue(c) ==
  IF c \in 48..57 THEN c - 48
  ELSE IF c \in 97..102 THEN c - 97 + 10
  ELSE c - 65 + 10

\* The scanners return the position after the value that starts at i,
\* or 0 when no value of the kind starts there.

\* the number of backslashes that end at position k, none before position lo
BackslashRun(text, lo, k) ==
  IF k < lo \/ text[k] # 92 THEN 0
  ELSE k - (CHOOSE m \in (lo - 1)..k :
              /\ \A j \in (m + 1)..k : text[j] = 92
              /\ (m >= lo => text[m] # 92))

\* whether position k of a string that opens at position q - 1 is a backslash
\* that starts an escape
StartsEscape(text, q, k) == BackslashRun(text, q, k) % 2 = 1

\* a string, text[i] being its opening quote: up to the first quote that no
\* backslash escapes, with no control character and only JSON's escapes
ScanString(text, i) ==
  IF i > Len(text) \/ text[i] # 34 THEN 0
  ELSE
    LET closing == {j \in (i + 1)..Len(text) :
                      text[j] = 34 /\ ~StartsEscape(text, i + 1, j - 1)}
    IN  IF closing = {} THEN 0
        ELSE
          LET j == CHOOSE j \in closing : \A m \in closing : j <= m
          IN  IF \A k \in (i + 1)..(j - 1) :
                   /\ text[k] >= 32
                   /\ StartsEscape(text, i + 1, k) =>
                        \/ text[k + 1] \in {34, 92, 47, 98, 102, 110, 114, 116}
                        \/ /\ text[k + 1] = 117
                           /\ k + 5 < j
                           /\ \A h \in 2..5 : IsHex(text[k + h])
              THEN j + 1 ELSE 0

RECURSIVE ScanDigits(_, _)
ScanDigits(text, i) ==
  IF i <= Len(text) /\ IsDigit(text[i]) THEN ScanDigits(text, i + 1) ELSE i

\* a number without fraction or exponent (the engine writes no others)
ScanNumber(text, i) ==
  LET j == IF i <= Len(text) /\ text[i] = 45 THEN i + 1 ELSE i
      k == ScanDigits(text, j)
  IN  IF k = j \/ (k > j + 1 /\ text[j] = 48) THEN 0 ELSE k

ScanWord(text, i, word) ==
  IF i + Len(word) - 1 <= Len(text)
     /\ SubSeq(text, i, i + Len(word) - 1) = word
  THEN i + Len(word) ELSE 0

RECURSIVE ScanValue(_, _)
RECURSIVE ScanMembers(_, _)

\* the members of an object after its opening brace or after a comma
ScanMembers(text, i) ==
  LET n == SkipSpace(text, i)
      e == ScanString(text, n)
      c == SkipSpace(text, e)
  IN  IF e = 0 \/ c > Len(text) \/ text[c] # 58 THEN 0
      ELSE
        LET v == ScanValue(text, SkipSpace(text, c + 1))
            d == SkipSpace(text, v)
        IN  IF v = 0 \/ d > Len(text) THEN 0
            ELSE IF text[d] = 125 THEN d + 1
            ELSE IF text[d] = 44 THEN ScanMembers(text, d + 1)
            ELSE 0

ScanObject(text, i) ==
  IF i > Len(text) \/ text[i] # 123 THEN 0
  ELSE
    LET n == SkipSpace(text, i + 1)
    IN  IF n <= Len(text) /\ text[n] = 125 THEN n + 1
        ELSE ScanMembers(text, i + 1)

ScanValue(text, i) ==
  IF i > Len(text) THEN 0
  ELSE IF text[i] = 34 THEN ScanString(text, i)
  ELSE IF text[i] = 123 THEN ScanObject(text, i)
  ELSE IF text[i] = 116 THEN ScanWord(text, i, <<116, 114, 117, 101>>)
  ELSE IF text[i] = 102 THEN ScanWord(text, i, <<102, 97, 108, 115, 101>>)
  ELSE IF text[i] = 110 THEN ScanWord(text, i, <<110, 117, 108, 108>>)
  ELSE ScanNumber(text, i)

\* the code units that position k of the string literal text (which opens
\* at 1) denotes: an escape is written at the character after its backslash
UnquoteAt(text, k) ==
  IF StartsEscape(text, 2, k) THEN <<>>
  ELSE IF k > 2 /\ StartsEscape(text, 2, k - 1)
    THEN IF text[k] = 117
         THEN <<HexValue(text[k + 1]) * 4096 + HexValue(text[k + 2]) * 256
                + HexValue(text[k + 3]) * 16 + HexValue(text[k + 4])>>
         ELSE <<CASE text[k] = 98 -> 8
                  [] text[k] = 102 -> 12
                  [] text[k] = 110 -> 10
                  [] text[k] = 114 -> 13
                  [] text[k] = 116 -> 9
                  [] OTHER -> text[k]>>
  ELSE IF \E h \in 1..4 : k - h > 2 /\ text[k - h] = 117
                          /\ StartsEscape(text, 2, k - h - 1)
    THEN <<>>
  ELSE <<text[k]>>

\* the string that the string literal text denotes
StringOfText(text) ==
  Concat([k \in 1..(Len(text) - 2) |-> UnquoteAt(text, k + 1)])

RECURSIVE DigitsValue(_, _, _)
DigitsValue(text, i, acc) ==
  IF i > Len(text) THEN acc
  ELSE DigitsValue(text, i + 1, acc * 10 + (text[i] - 48))

\* the members of the object text that starts at i (the position after its
\* brace or after a comma), as name and the text of the value
RECURSIVE MembersFrom(_, _)
MembersFrom(text, i) ==
  LET n == SkipSpace(text, i)
  IN  IF text[n] = 125 THEN <<>>
      ELSE
        LET e == ScanString(text, n)
            v == SkipSpace(text, SkipSpace(text, e) + 1)
            w == ScanValue(text, v)
            d == SkipSpace(text, w)
        IN  <<[name |-> StringOfText(SubSeq(text, n, e - 1)),
               text |-> SubSeq(text, v, w - 1)]>>
            \o (IF text[d] = 44 THEN MembersFrom(text, d + 1) ELSE <<>>)

\* JSON.parse(text) of an object: its members, or SyntaxError
JsonParseObject(text) ==
  LET i == SkipSpace(text, 1)
      e == ScanObject(text, i)
  IN  IF e = 0 \/ SkipSpace(text, e) <= Len(text)
      THEN Fail("SyntaxError", <<"Unexpected token in JSON">>)
      ELSE Ok(MembersFrom(text, i + 1))

\* whether the parsed object has a property name
HasProperty(members, name) == \E k \in 1..Len(members) : members[k].name = name

\* the text of property name of a parsed object (the last member of that
\* name, as JSON.parse keeps it)
PropertyText(members, name) ==
  LET k == CHOOSE k \in 1..Len(members) :
             /\ members[k].name = name
             /\ \A m \in (k + 1)..Len(members) : members[m].name # name
  IN  members[k].text

IsStringText(text) == Len(text) > 0 /\ text[1] = 34

IsObjectText(text) == Len(text) > 0 /\ text[1] = 123

IsNumberText(text) == Len(text) > 0 /\ IsDigit(text[1])

NumberOfText(text) == DigitsValue(text, 1, 0)

\* new Date().toISOString() at clock value t: one millisecond per tick
toISOString(t) ==
  <<50, 48, 50, 53, 45, 48, 49, 45, 48, 49, 84, 48, 48, 58, 48, 48, 58, 48, 48, 46>>
  \o <<48 + ((t \div 100) % 10), 48 + ((t \div 10) % 10), 48 + (t % 10), 90>>

\* ------------------------------------------------------------------------
\* JavaScript values the code tells apart with typeof
\* ------------------------------------------------------------------------

JsString(s) == [type |-> "string", v |-> s]

JsBuffer(b) == [type |-> "object", v |-> b]

\* ------------------------------------------------------------------------
\* Host primitives (window.crypto, window.crypto.subtle)
\* ------------------------------------------------------------------------

VARIABLES
  window,     \* the host page: whether window.crypto and
              \* window.crypto.subtle exist
  smpcrypto   \* the singleton: what new SMPCivicCrypto() gave when the
              \* module was loaded

\* the instance the methods run on
this == smpcrypto.val

\* this.subtle.<method>(...) on an instance whose subtle field is undefined
NoSubtle == Fail("TypeError", <<"Cannot read properties of undefined">>)

\* The bytes of the seed-th draw of the host's random source.  Outputs of
\* distinct draws differ in every byte: the source never repeats itself.
RandomBytes(seed, n) == [i \in 1..n |-> (37 * seed + 11 * i) % 256]

\* window.crypto.getRandomValues(new Uint8Array(n))
getRandomValues(seed, n) ==
  Traced(Event("getRandomValues", <<>>, <<>>, <<>>, RandomBytes(seed, n)),
         Ok(RandomBytes(seed, n)))

\* the sum of buf[j], buf[j + w], buf[j + 2w], ...
RECURSIVE LaneSum(_, _, _)
LaneSum(buf, j, w) ==
  IF j > Len(buf) THEN 0 ELSE buf[j] + LaneSum(buf, j + w, w)

\* SHA-256, a stand-in: 32 bytes, a function of every byte and of the
\* length, without collisions among buffers below 32 bytes
Sha256(data) ==
  [j \in 1..DigestLen |->
     IF j < DigestLen THEN LaneSum(data, j, DigestLen - 1) % 256
     ELSE (Len(data) + Len(data) \div 256) % 256]

\* PBKDF2 with the given salt, iteration count and hash, a stand-in: KeyLen
\* bytes, a function of every byte of password and salt
Pbkdf2(password, salt, iterations, hash) ==
  [j \in 1..KeyLen |->
     (LaneSum(password, j, KeyLen - 1) + LaneSum(salt, j, KeyLen)
      + (IF j = KeyLen THEN Len(password) ELSE 0)
      + iterations + (IF hash = "SHA-256" THEN 0 ELSE 1)) % 256]

\* the AES-GCM key stream byte for position i
KeyStream(raw, iv, i) ==
  raw[((i - 1) % Len(raw)) + 1]
  + (IF Len(iv) = 0 THEN 0 ELSE iv[((i - 1) % Len(iv)) + 1])

\* the AES-GCM authentication tag, a stand-in: a function of the key, the IV,
\* the length and every byte of the encrypted body; flipping one bit of the
\* body or of the tag breaks verification
GcmTag(raw, iv, body) ==
  [j \in 1..TagLen |->
     (raw[j] + LaneSum(iv, j, TagLen) + LaneSum(body, j, TagLen)
      + (IF j = TagLen THEN Len(body) ELSE 0)) % 256]

\* AES-GCM encryption of plaintext under raw key material and iv:
\* the encrypted body followed by the tag
AesGcmEncrypt(raw, iv, plaintext) ==
  LET body == [i \in 1..Len(plaintext) |->
                 (plaintext[i] + KeyStream(raw, iv, i)) % 256]
  IN  body \o GcmTag(raw, iv, body)

OperationError ==
  Fail("OperationError",
       <<"The operation failed for an operation-specific reason">>)

\* AES-GCM decryption: OperationError unless the tag verifies
AesGcmDecrypt(raw, iv, ciphertext) ==
  IF Len(ciphertext) < TagLen THEN OperationError
  ELSE
    LET n == Len(ciphertext) - TagLen
        body == SubSeq(ciphertext, 1, n)
        tag == SubSeq(ciphertext, n + 1, n + TagLen)
    IN  IF tag # GcmTag(raw, iv, body) THEN OperationError
        ELSE Ok([i \in 1..n |-> (body[i] + 512 - KeyStream(raw, iv, i)) % 256])

\* A CryptoKey handle
CryptoKey(type, algorithm, extractable, usages, raw) ==
  [type |-> type, algorithm |-> algorithm, extractable |-> extractable,
   usages |-> usages, raw |-> raw]

\* subtle.generateKey({name: 'AES-GCM', length: 256}, extractable, usages)
subtleGenerateAesKey(extractable, usages, seed) ==
  IF ~this.subtle THEN NoSubtle ELSE
  Traced(Event("generateKey", RandomBytes(seed, KeyLen), <<>>, <<>>, <<>>),
         Ok(CryptoKey("secret", "AES-GCM", extractable, usages,
                      RandomBytes(seed, KeyLen))))

\* subtle.importKey('raw', keyData, algorithm, extractable, usages)
subtleImportRaw(keyData, algorithm, extractable, usages) ==
  IF ~this.subtle THEN NoSubtle ELSE
  Traced(Event("importKey", <<>>, <<>>, keyData, <<>>),
         IF algorithm = "AES-GCM" /\ Len(keyData) \notin {16, 24, 32}
         THEN Fail("DataError", <<"Invalid key length">>)
         ELSE Ok(CryptoKey("secret", algorithm, extractable, usages, keyData)))

\* subtle.exportKey('raw', key)
subtleExportRaw(key) ==
  IF ~this.subtle THEN NoSubtle ELSE
  IF ~key.extractable
  THEN Traced(Event("exportKey", key.raw, <<>>, <<>>, <<>>),
              Fail("InvalidAccessError", <<"key is not extractable">>))
  ELSE IF key.type # "secret"
  THEN Traced(Event("exportKey", key.raw, <<>>, <<>>, <<>>),
              Fail("NotSupportedError",
                   <<"Unable to export a raw key of this type">>))
  ELSE Traced(Event("exportKey", key.raw, <<>>, <<>>, key.raw), Ok(key.raw))

\* subtle.deriveKey({name: 'PBKDF2', salt, iterations, hash}, keyMaterial,
\*                  {name: 'AES-GCM', length: 256}, extractable, usages)
subtleDeriveKey(salt, iterations, hash, keyMaterial, extractable, usages) ==
  IF ~this.subtle THEN NoSubtle ELSE
  IF keyMaterial.algorithm # "PBKDF2" \/ "deriveKey" \notin keyMaterial.usages
  THEN Traced(Event("deriveKey", keyMaterial.raw, salt, <<>>, <<>>),
              Fail("InvalidAccessError",
                   <<"key cannot be used to derive a key">>))
  ELSE
    LET raw == Pbkdf2(keyMaterial.raw, salt, iterations, hash)
    IN  Traced(Event("deriveKey", keyMaterial.raw, salt, <<>>, raw),
               Ok(CryptoKey("secret", "AES-GCM", extractable, usages, raw)))

\* subtle.encrypt({name: 'AES-GCM', iv}, key, data)
subtleEncryptAesGcm(iv, key, data) ==
  IF ~this.subtle THEN NoSubtle ELSE
  IF key.algorithm # "AES-GCM" \/ "encrypt" \notin key.usages
  THEN Traced(Event("encrypt", key.raw, iv, data, <<>>),
              Fail("InvalidAccessError", <<"key cannot be used to encrypt">>))
  ELSE
    LET out == AesGcmEncrypt(key.raw, iv, data)
    IN  Traced(Event("encrypt", key.raw, iv, data, out), Ok(out))

\* subtle.decrypt({name: 'AES-GCM', iv}, key, data)
subtleDecryptAesGcm(iv, key, data) ==
  IF ~this.subtle THEN NoSubtle ELSE
  IF key.algorithm # "AES-GCM" \/ "decrypt" \notin key.usages
  THEN Traced(Event("decrypt", key.raw, iv, data, <<>>),
              Fail("InvalidAccessError", <<"key cannot be used to decrypt">>))
  ELSE
    LET out == AesGcmDecrypt(key.raw, iv, data)
    IN  Traced(Event("decrypt", key.raw, iv, data, out.val), out)

\* subtle.digest('SHA-256', data)
subtleDigest(hash, data) ==
  IF ~this.subtle THEN NoSubtle ELSE
  Traced(Event("digest", <<>>, <<>>, data, Sha256(data)), Ok(Sha256(data)))

\* the DER bytes that precede and follow the modulus in the
\* SubjectPublicKeyInfo of an RSA key of ModulusLen bytes with public
\* exponent 65537
SpkiHeader ==
  <<48, 130, 2, 34, 48, 13, 6, 9, 42, 134, 72, 134, 247, 13, 1, 1, 1, 5, 0,
    3, 130, 2, 15, 0, 48, 130, 2, 10, 2, 130, 2, 1, 0>>

SpkiTrailer == <<2, 3, 1, 0, 1>>

\* subtle.generateKey({name: 'RSA-OAEP', modulusLength, publicExponent,
\*                     hash}, extractable, usages): both handles carry the
\* modulus; the private exponent stays with the host
subtleGenerateRsaKey(modulusLength, extractable, usages, seed) ==
  IF ~this.subtle THEN NoSubtle ELSE
  LET modulus == RandomBytes(seed, modulusLength \div 8)
  IN  Traced(Event("generateKey", modulus, <<>>, <<>>, <<>>),
             Ok([publicKey |->
                   CryptoKey("public", "RSA-OAEP", TRUE,
                             usages \cap {"encrypt"}, modulus),
                 privateKey |->
                   CryptoKey("private", "RSA-OAEP", extractable,
                             usages \cap {"decrypt"}, modulus)]))

\* subtle.exportKey('spki', key)
subtleExportSpki(key) ==
  IF ~this.subtle THEN NoSubtle ELSE
  IF key.type # "public"
  THEN Traced(Event("exportKey", key.raw, <<>>, <<>>, <<>>),
              Fail("InvalidAccessError",
                   <<"Unable to export this key as spki">>))
  ELSE Traced(Event("exportKey", key.raw, <<>>, <<>>,
                    SpkiHeader \o key.raw \o SpkiTrailer),
              Ok(SpkiHeader \o key.raw \o SpkiTrailer))

\* subtle.importKey('spki', keyData, {name: 'RSA-OAEP', hash}, extractable,
\*                  usages)
subtleImportSpki(keyData, extractable, usages) ==
  IF ~this.subtle THEN NoSubtle ELSE
  LET n == Len(keyData) - Len(SpkiHeader) - Len(SpkiTrailer)
  IN  Traced(Event("importKey", <<>>, <<>>, keyData, <<>>),
             IF \/ n < 1
                \/ SubSeq(keyData, 1, Len(SpkiHeader)) # SpkiHeader
                \/ SubSeq(keyData, Len(SpkiHeader) + n + 1, Len(keyData))
                     # SpkiTrailer
             THEN Fail("DataError", <<"Invalid key data">>)
             ELSE Ok(CryptoKey("public", "RSA-OAEP", extractable, usages,
                               SubSeq(keyData, Len(SpkiHeader) + 1,
                                      Len(SpkiHeader) + n))))

\* the room RSA-OAEP with SHA-256 leaves for the message
OaepOverhead == 66

\* RSA-OAEP encryption, a stand-in: as many bytes as the modulus, a function
\* of the modulus, of the message and of the padding's own random draw
RsaOaepEncrypt(modulus, seed, message) ==
  LET mask == RandomBytes(seed, Len(modulus))
  IN  [i \in 1..Len(modulus) |->
         (modulus[i] + mask[i]
          + (IF i <= Len(message) THEN message[i] ELSE Len(message))) % 256]

\* subtle.encrypt({name: 'RSA-OAEP'}, publicKey, data)
subtleEncryptRsaOaep(key, data, seed) ==
  IF ~this.subtle THEN NoSubtle ELSE
  IF key.algorithm # "RSA-OAEP" \/ "encrypt" \notin key.usages
  THEN Traced(Event("encryptRsa", key.raw, <<>>, data, <<>>),
              Fail("InvalidAccessError", <<"key cannot be used to encrypt">>))
  ELSE IF Len(data) + OaepOverhead > Len(key.raw)
  THEN Traced(Event("encryptRsa", key.raw, <<>>, data, <<>>), OperationError)
  ELSE Traced(Event("encryptRsa", key.raw, <<>>, data,
                    RsaOaepEncrypt(key.raw, seed, data)),
              Ok(RsaOaepEncrypt(key.raw, seed, data)))

\* ------------------------------------------------------------------------
\* String literals of the source, as code units
\* ------------------------------------------------------------------------

Text(s) ==
  CASE s = "AES-GCM" ->
        <<65, 69, 83, 45, 71, 67, 77>>
 [] s = "RSA-4096-OAEP+AES-256-GCM" ->
        <<82, 83, 65, 45, 52, 48, 57, 54, 45, 79, 65, 69, 80, 43, 65, 69, 83, 45, 50, 53, 54, 45, 71, 67, 77>>
 [] s = "smp_civic_" ->
        <<115, 109, 112, 95, 99, 105, 118, 105, 99, 95>>
 [] s = "originalName" ->
        <<111, 114, 105, 103, 105, 110, 97, 108, 78, 97, 109, 101>>
 [] s = "originalSize" ->
        <<111, 114, 105, 103, 105, 110, 97, 108, 83, 105, 122, 101>>
 [] s = "mimeType" ->
        <<109, 105, 109, 101, 84, 121, 112, 101>>
 [] s = "encrypted" ->
        <<101, 110, 99, 114, 121, 112, 116, 101, 100>>
 [] s = "timestamp" ->
        <<116, 105, 109, 101, 115, 116, 97, 109, 112>>
 [] s = "algorithm" ->
        <<97, 108, 103, 111, 114, 105, 116, 104, 109>>
 [] s = "ciphertext" ->
        <<99, 105, 112, 104, 101, 114, 116, 101, 120, 116>>
 [] s = "iv" ->
        <<105, 118>>
 [] s = "salt" ->
        <<115, 97, 108, 116>>
 [] s = "true" ->
        <<116, 114, 117, 101>>
 [] s = "undefined" ->
        <<117, 110, 100, 101, 102, 105, 110, 101, 100>>
 [] s = "encryptedKey" ->
        <<101, 110, 99, 114, 121, 112, 116, 101, 100, 75, 101, 121>>

\* this.algorithms and this.keyPrefix (the constructor)
algorithms ==
  [symmetric |-> "AES-GCM", asymmetric |-> "RSA-OAEP", hash |-> "SHA-256",
   keyDerivation |-> "PBKDF2"]

keyPrefix == Text("smp_civic_")

\* the hosts a page can meet: a browser in a secure context; a page served
\* without one, where window.crypto has no subtle; a host without
\* window.crypto
Hosts ==
  {[crypto |-> TRUE, subtle |-> TRUE], [crypto |-> TRUE, subtle |-> FALSE],
   [crypto |-> FALSE, subtle |-> FALSE]}

\* new SMPCivicCrypto() in host w: reading window.crypto.subtle throws when
\* window.crypto is undefined
constructor(w) ==
  IF ~w.crypto
  THEN Fail("TypeError", <<"Cannot read properties of undefined">>)
  ELSE Ok([crypto |-> w.crypto, subtle |-> w.subtle,
           algorithms |-> algorithms, keyPrefix |-> keyPrefix])

\* ------------------------------------------------------------------------
\* Symmetric encryption (AES-256-GCM)
\* ------------------------------------------------------------------------

\* generateSymmetricKey(): seed is the draw of the random source it uses
generateSymmetricKey(seed) ==
  subtleGenerateAesKey(TRUE, {"encrypt", "decrypt"}, seed)

\* a faulty deriveKeyFromPassword: the key material is not the password
deriveKeyFromPasswordAnyPassword(password, salt, seed) ==
  Then(IF salt = <<>> THEN getRandomValues(seed, SaltLen) ELSE Ok(salt[1]),
       LAMBDA salt1 :
  Then(subtleImportRaw(<<>>, "PBKDF2", FALSE, {"deriveBits", "deriveKey"}),
       LAMBDA keyMaterial :
  Then(subtleDeriveKey(salt1, Iterations, this.algorithms.hash, keyMaterial,
                       FALSE, {"encrypt", "decrypt"}),
       LAMBDA key :
  Ok([key |-> key, salt |-> salt1]))))

\* a faulty deriveKeyFromPassword: it draws a salt even when one is passed
deriveKeyFromPasswordFreshSalt(password, salt, seed) ==
  Then(getRandomValues(seed, SaltLen),
       LAMBDA salt1 :
  Then(subtleImportRaw(str2ab(password), "PBKDF2", FALSE,
                       {"deriveBits", "deriveKey"}),
       LAMBDA keyMaterial :
  Then(subtleDeriveKey(salt1, Iterations, this.algorithms.hash, keyMaterial,
                       FALSE, {"encrypt", "decrypt"}),
       LAMBDA key :
  Ok([key |-> key, salt |-> salt1]))))

\* deriveKeyFromPassword(password, salt = null): the value is {key, salt};
\* seed is the draw that gives the salt when none is passed
deriveKeyFromPassword(password, salt, seed) ==
  Then(IF salt = <<>> THEN getRandomValues(seed, SaltLen) ELSE Ok(salt[1]),
       LAMBDA salt1 :
  Then(subtleImportRaw(str2ab(password), "PBKDF2", FALSE,
                       {"deriveBits", "deriveKey"}),
       LAMBDA keyMaterial :
  Then(subtleDeriveKey(salt1, Iterations, this.algorithms.hash, keyMaterial,
                       FALSE, {"encrypt", "decrypt"}),
       LAMBDA key :
  Ok([key |-> key, salt |-> salt1]))))

\* a faulty encryptSymmetric: the IV is new Uint8Array(12), never filled
encryptSymmetricStaticIv(data, key, seed) ==
  Then(Ok([i \in 1..IvLen |-> 0]),
       LAMBDA iv :
  Then(subtleEncryptAesGcm(iv, key,
                           IF data.type = "string" THEN str2ab(data.v)
                           ELSE data.v),
       LAMBDA encrypted :
  Then(ab2base64(encrypted),
       LAMBDA ciphertext :
  Then(ab2base64(iv),
       LAMBDA iv64 :
  Ok([ciphertext |-> ciphertext, iv |-> iv64,
      algorithm |-> Text(this.algorithms.symmetric)])))))

\* encryptSymmetric(data, key): seed is the draw that gives the IV
encryptSymmetric(data, key, seed) ==
  Then(getRandomValues(seed, IvLen),
       LAMBDA iv :
  Then(subtleEncryptAesGcm(iv, key,
                           IF data.type = "string" THEN str2ab(data.v)
                           ELSE data.v),
       LAMBDA encrypted :
  Then(ab2base64(encrypted),
       LAMBDA ciphertext :
  Then(ab2base64(iv),
       LAMBDA iv64 :
  Ok([ciphertext |-> ciphertext, iv |-> iv64,
      algorithm |-> Text(this.algorithms.symmetric)])))))

\* a faulty decryptSymmetric: the key stream is removed from the body and
\* the tag is not looked at
decryptSymmetricUnchecked(encryptedData, key) ==
  Then(base642ab(encryptedData.ciphertext),
       LAMBDA ciphertext :
  Then(base642ab(encryptedData.iv),
       LAMBDA iv :
  IF Len(ciphertext) < TagLen THEN OperationError
  ELSE Ok([i \in 1..(Len(ciphertext) - TagLen) |->
             (ciphertext[i] + 512 - KeyStream(key.raw, iv, i)) % 256])))

\* decryptSymmetric(encryptedData, key)
decryptSymmetric(encryptedData, key) ==
  Then(base642ab(encryptedData.ciphertext),
       LAMBDA ciphertext :
  Then(base642ab(encryptedData.iv),
       LAMBDA iv :
  subtleDecryptAesGcm(iv, key, ciphertext)))

\* ------------------------------------------------------------------------
\* Security utilities: fingerprint
\* ------------------------------------------------------------------------

\* a faulty createFileFingerprint: the digest is taken of an empty buffer
createFileFingerprintOfNothing(fileBuffer, t) ==
  Then(subtleDigest(this.algorithms.hash, <<>>),
       LAMBDA hashBuffer :
  Then(ab2base64(hashBuffer),
       LAMBDA sha256 :
  Ok([sha256 |-> sha256, size |-> Len(fileBuffer),
      timestamp |-> toISOString(t)])))

\* createFileFingerprint(fileBuffer), the clock reading t
createFileFingerprint(fileBuffer, t) ==
  Then(subtleDigest(this.algorithms.hash, fileBuffer),
       LAMBDA hashBuffer :
  Then(ab2base64(hashBuffer),
       LAMBDA sha256 :
  Ok([sha256 |-> sha256, size |-> Len(fileBuffer),
      timestamp |-> toISOString(t)])))

\* a faulty verifyFileIntegrity: the sizes are not compared
verifyFileIntegrityHashOnly(fileBuffer, expectedFingerprint, t) ==
  Then(createFileFingerprint(fileBuffer, t),
       LAMBDA currentFingerprint :
  Ok(currentFingerprint.sha256 = expectedFingerprint.sha256))

\* verifyFileIntegrity(fileBuffer, expectedFingerprint)
verifyFileIntegrity(fileBuffer, expectedFingerprint, t) ==
  Then(createFileFingerprint(fileBuffer, t),
       LAMBDA currentFingerprint :
  Ok(/\ currentFingerprint.sha256 = expectedFingerprint.sha256
     /\ currentFingerprint.size = expectedFingerprint.size))

\* ------------------------------------------------------------------------
\* File encryption
\* ------------------------------------------------------------------------

\* catch (error) { throw new Error(`<prefix>${error.message}`) }
Wrapped(prefix, r) ==
  IF r.ok THEN r
  ELSE [r EXCEPT !.err = [name |-> "Error",
                          message |-> <<prefix>> \o r.err.message]]

\* try { ... } catch (error) { return v }
Caught(r, v) ==
  IF r.ok THEN r ELSE [r EXCEPT !.ok = TRUE, !.val = v, !.err = NoError]

\* JSON.stringify(metadata) for the metadata object of encryptFile
MetadataJson(file, t) ==
  JsonObject(<<
    JsonMember(Text("originalName"), JsonQuote(file.name)),
    JsonMember(Text("originalSize"), JsonNumber(file.size)),
    JsonMember(Text("mimeType"), JsonQuote(file.type)),
    JsonMember(Text("encrypted"), Text("true")),
    JsonMember(Text("timestamp"), JsonQuote(toISOString(t))),
    JsonMember(Text("algorithm"), JsonQuote(Text(this.algorithms.symmetric)))>>)

\* the body of encryptFile's try block.  Seeds: the draws for the salt and
\* for the two IVs.  t1, t2: the clock when the metadata is built and when
\* the fingerprint is.
encryptFileTry(file, password, seedSalt, seedIv1, seedIv2, t1, t2) ==
  Then(Ok(file.bytes),
       LAMBDA fileBuffer :
  Then(deriveKeyFromPassword(password, <<>>, seedSalt),
       LAMBDA d :
  Then(encryptSymmetric(JsBuffer(fileBuffer), d.key, seedIv1),
       LAMBDA encrypted :
  Then(encryptSymmetric(JsString(MetadataJson(file, t1)), d.key, seedIv2),
       LAMBDA encryptedMetadata :
  Then(ab2base64(d.salt),
       LAMBDA salt :
  Then(createFileFingerprint(fileBuffer, t2),
       LAMBDA fileFingerprint :
  Ok([encryptedContent |-> encrypted,
      encryptedMetadata |-> encryptedMetadata,
      salt |-> salt,
      fileFingerprint |-> fileFingerprint])))))))

\* encryptFile(file, password)
encryptFile(file, password, seedSalt, seedIv1, seedIv2, t1, t2) ==
  Wrapped("File encryption failed: ",
          encryptFileTry(file, password, seedSalt, seedIv1, seedIv2, t1, t2))

\* the type of new Blob(parts, {type}): empty unless printable ASCII, and
\* in lower case
BlobType(type) ==
  IF \E i \in 1..Len(type) : type[i] \notin 32..126 THEN <<>>
  ELSE [i \in 1..Len(type) |->
          IF type[i] \in 65..90 THEN type[i] + 32 ELSE type[i]] \o <<>>

\* String(x) of property name of a parsed object, for a string property
\* or a missing one
PropertyString(members, name) ==
  IF HasProperty(members, name) /\ IsStringText(PropertyText(members, name))
  THEN StringOfText(PropertyText(members, name))
  ELSE IF HasProperty(members, name) THEN PropertyText(members, name)
  ELSE Text("undefined")

\* a faulty decryptFile: when the content does not decrypt, it returns the
\* metadata with an empty blob
decryptFileTryKeepingMetadata(encryptedFile, password) ==
  Then(base642ab(encryptedFile.salt),
       LAMBDA salt :
  Then(deriveKeyFromPassword(password, <<salt>>, 0),
       LAMBDA d :
  Then(decryptSymmetric(encryptedFile.encryptedMetadata, d.key),
       LAMBDA metadataBuffer :
  Then(JsonParseObject(ab2str(metadataBuffer)),
       LAMBDA metadata :
  Then(Caught(decryptSymmetric(encryptedFile.encryptedContent, d.key), <<>>),
       LAMBDA contentBuffer :
  Ok([blob |-> [bytes |-> contentBuffer,
                type |-> BlobType(PropertyString(metadata,
                                                 Text("mimeType")))],
      metadata |-> metadata,
      fingerprint |-> encryptedFile.fileFingerprint]))))))

\* a faulty decryptFile: it verifies the content against the fingerprint
\* of the bundle and fails when they differ
decryptFileTryVerifying(encryptedFile, password) ==
  Then(base642ab(encryptedFile.salt),
       LAMBDA salt :
  Then(deriveKeyFromPassword(password, <<salt>>, 0),
       LAMBDA d :
  Then(decryptSymmetric(encryptedFile.encryptedMetadata, d.key),
       LAMBDA metadataBuffer :
  Then(JsonParseObject(ab2str(metadataBuffer)),
       LAMBDA metadata :
  Then(decryptSymmetric(encryptedFile.encryptedContent, d.key),
       LAMBDA contentBuffer :
  Then(verifyFileIntegrity(contentBuffer, encryptedFile.fileFingerprint, 0),
       LAMBDA same :
  IF ~same THEN Fail("Error", <<"Integrity mismatch">>)
  ELSE
  Ok([blob |-> [bytes |-> contentBuffer,
                type |-> BlobType(PropertyString(metadata,
                                                 Text("mimeType")))],
      metadata |-> metadata,
      fingerprint |-> encryptedFile.fileFingerprint])))))))

\* the body of decryptFile's try block
decryptFileTry(encryptedFile, password) ==
  Then(base642ab(encryptedFile.salt),
       LAMBDA salt :
  Then(deriveKeyFromPassword(password, <<salt>>, 0),
       LAMBDA d :
  Then(decryptSymmetric(encryptedFile.encryptedMetadata, d.key),
       LAMBDA metadataBuffer :
  Then(JsonParseObject(ab2str(metadataBuffer)),
       LAMBDA metadata :
  Then(decryptSymmetric(encryptedFile.encryptedContent, d.key),
       LAMBDA contentBuffer :
  Ok([blob |-> [bytes |-> contentBuffer,
                type |-> BlobType(PropertyString(metadata,
                                                 Text("mimeType")))],
      metadata |-> metadata,
      fingerprint |-> encryptedFile.fileFingerprint]))))))

\* decryptFile(encryptedFile, password)
decryptFile(encryptedFile, password) ==
  Wrapped("File decryption failed: ", decryptFileTry(encryptedFile, password))

\* ------------------------------------------------------------------------
\* Key management (localStorage)
\* ------------------------------------------------------------------------

\* `${this.keyPrefix}${keyId}`
ItemName(keyId) == this.keyPrefix \o keyId

\* a faulty keyData: the members of the blob are spread among the others
KeyDataJsonFlat(encrypted, salt, t) ==
  JsonObject(<<
    JsonMember(Text("ciphertext"), JsonQuote(encrypted.ciphertext)),
    JsonMember(Text("iv"), JsonQuote(encrypted.iv)),
    JsonMember(Text("algorithm"), JsonQuote(encrypted.algorithm)),
    JsonMember(Text("salt"), JsonQuote(salt)),
    JsonMember(Text("timestamp"), JsonQuote(toISOString(t)))>>)

\* JSON.stringify(keyData) for the keyData object of storeKey
KeyDataJson(encrypted, salt, t) ==
  JsonObject(<<
    JsonMember(Text("encrypted"),
      JsonObject(<<
        JsonMember(Text("ciphertext"), JsonQuote(encrypted.ciphertext)),
        JsonMember(Text("iv"), JsonQuote(encrypted.iv)),
        JsonMember(Text("algorithm"), JsonQuote(encrypted.algorithm))>>)),
    JsonMember(Text("salt"), JsonQuote(salt)),
    JsonMember(Text("timestamp"), JsonQuote(toISOString(t)))>>)

\* localStorage.setItem(name, value)
setItem(name, value) ==
  Traced(Event("setItem", name, <<>>, value, <<>>), Ok(<<>>))

\* a faulty storeKey: the exported key is stored as it is, in the place of
\* its ciphertext
storeKeyUnwrapped(keyId, key, password, seedSalt, seedIv, t) ==
  Then(deriveKeyFromPassword(password, <<>>, seedSalt),
       LAMBDA d :
  Then(subtleExportRaw(key),
       LAMBDA exportedKey :
  Then(getRandomValues(seedIv, IvLen),
       LAMBDA iv :
  Then(ab2base64(exportedKey),
       LAMBDA ciphertext :
  Then(ab2base64(iv),
       LAMBDA iv64 :
  Then(ab2base64(d.salt),
       LAMBDA salt :
  setItem(ItemName(keyId),
          KeyDataJson([ciphertext |-> ciphertext, iv |-> iv64,
                       algorithm |-> Text(this.algorithms.symmetric)],
                      salt, t))))))))

\* a faulty storeKey: it reserves the item, with the salt, before it
\* exports the key
storeKeyWritingFirst(keyId, key, password, seedSalt, seedIv, t) ==
  Then(deriveKeyFromPassword(password, <<>>, seedSalt),
       LAMBDA d :
  Then(ab2base64(d.salt),
       LAMBDA salt :
  Then(setItem(ItemName(keyId), salt),
       LAMBDA reserved :
  Then(subtleExportRaw(key),
       LAMBDA exportedKey :
  Then(encryptSymmetric(JsBuffer(exportedKey), d.key, seedIv),
       LAMBDA encrypted :
  setItem(ItemName(keyId), KeyDataJson(encrypted, salt, t)))))))

\* storeKey(keyId, key, password).  Seeds: the draws for the salt and for
\* the IV.  t: the clock when keyData is built.
storeKey(keyId, key, password, seedSalt, seedIv, t) ==
  Then(deriveKeyFromPassword(password, <<>>, seedSalt),
       LAMBDA d :
  Then(subtleExportRaw(key),
       LAMBDA exportedKey :
  Then(encryptSymmetric(JsBuffer(exportedKey), d.key, seedIv),
       LAMBDA encrypted :
  Then(ab2base64(d.salt),
       LAMBDA salt :
  setItem(ItemName(keyId), KeyDataJson(encrypted, salt, t))))))

\* localStorage.getItem(name): null (here <<>>) when there is no such item
getItem(store, name) ==
  IF name \in DOMAIN store THEN <<store[name]>> ELSE <<>>

\* keyData.encrypted as decryptSymmetric reads it: its ciphertext and iv
EncryptedOf(keyData) ==
  IF ~HasProperty(keyData, Text("encrypted"))
     \/ ~IsObjectText(PropertyText(keyData, Text("encrypted")))
  THEN Fail("TypeError", <<"Cannot read properties of undefined">>)
  ELSE Then(JsonParseObject(PropertyText(keyData, Text("encrypted"))),
            LAMBDA encrypted :
       Ok([ciphertext |-> PropertyString(encrypted, Text("ciphertext")),
           iv |-> PropertyString(encrypted, Text("iv"))]))

\* a faulty retrieveKey: it returns the wrapping key, not the wrapped one
retrieveKeyWrapping(keyId, password, store) ==
  Then(Ok(getItem(store, ItemName(keyId))),
       LAMBDA stored :
  IF stored = <<>> \/ stored[1] = <<>>
  THEN Fail("Error", <<"Key not found">>)
  ELSE
  Then(JsonParseObject(stored[1]),
       LAMBDA keyData :
  Then(base642ab(PropertyString(keyData, Text("salt"))),
       LAMBDA salt :
  Then(deriveKeyFromPassword(password, <<salt>>, 0),
       LAMBDA d :
  Then(EncryptedOf(keyData),
       LAMBDA encrypted :
  Then(decryptSymmetric(encrypted, d.key),
       LAMBDA decryptedKeyData :
  subtleImportRaw(d.key.raw, this.algorithms.symmetric, FALSE,
                  {"encrypt", "decrypt"})))))))

\* a faulty retrieveKey: the key is imported as an extractable handle
retrieveKeyExtractable(keyId, password, store) ==
  Then(Ok(getItem(store, ItemName(keyId))),
       LAMBDA stored :
  IF stored = <<>> \/ stored[1] = <<>>
  THEN Fail("Error", <<"Key not found">>)
  ELSE
  Then(JsonParseObject(stored[1]),
       LAMBDA keyData :
  Then(base642ab(PropertyString(keyData, Text("salt"))),
       LAMBDA salt :
  Then(deriveKeyFromPassword(password, <<salt>>, 0),
       LAMBDA d :
  Then(EncryptedOf(keyData),
       LAMBDA encrypted :
  Then(decryptSymmetric(encrypted, d.key),
       LAMBDA decryptedKeyData :
  subtleImportRaw(decryptedKeyData, this.algorithms.symmetric, TRUE,
                  {"encrypt", "decrypt"})))))))

\* a faulty retrieveKey: it derives the key before it looks for the entry
retrieveKeyDerivingFirst(keyId, password, store) ==
  Then(deriveKeyFromPassword(password, << <<>> >>, 0),
       LAMBDA first :
  Then(Ok(getItem(store, ItemName(keyId))),
       LAMBDA stored :
  IF stored = <<>> \/ stored[1] = <<>>
  THEN Fail("Error", <<"Key not found">>)
  ELSE
  Then(JsonParseObject(stored[1]),
       LAMBDA keyData :
  Then(base642ab(PropertyString(keyData, Text("salt"))),
       LAMBDA salt :
  Then(deriveKeyFromPassword(password, <<salt>>, 0),
       LAMBDA d :
  Then(EncryptedOf(keyData),
       LAMBDA encrypted :
  Then(decryptSymmetric(encrypted, d.key),
       LAMBDA decryptedKeyData :
  subtleImportRaw(decryptedKeyData, this.algorithms.symmetric, FALSE,
                  {"encrypt", "decrypt"}))))))))

\* a faulty retrieveKey: it consumes the item, blanking it when it has
\* imported the key
retrieveKeyConsuming(keyId, password, store) ==
  Then(Ok(getItem(store, ItemName(keyId))),
       LAMBDA stored :
  IF stored = <<>> \/ stored[1] = <<>>
  THEN Fail("Error", <<"Key not found">>)
  ELSE
  Then(JsonParseObject(stored[1]),
       LAMBDA keyData :
  Then(base642ab(PropertyString(keyData, Text("salt"))),
       LAMBDA salt :
  Then(deriveKeyFromPassword(password, <<salt>>, 0),
       LAMBDA d :
  Then(EncryptedOf(keyData),
       LAMBDA encrypted :
  Then(decryptSymmetric(encrypted, d.key),
       LAMBDA decryptedKeyData :
  Then(subtleImportRaw(decryptedKeyData, this.algorithms.symmetric, FALSE,
                       {"encrypt", "decrypt"}),
       LAMBDA key :
  Then(setItem(ItemName(keyId), <<>>),
       LAMBDA blanked : Ok(key)))))))))

\* retrieveKey(keyId, password), store being the content of localStorage
retrieveKey(keyId, password, store) ==
  Then(Ok(getItem(store, ItemName(keyId))),
       LAMBDA stored :
  IF stored = <<>> \/ stored[1] = <<>>
  THEN Fail("Error", <<"Key not found">>)
  ELSE
  Then(JsonParseObject(stored[1]),
       LAMBDA keyData :
  Then(base642ab(PropertyString(keyData, Text("salt"))),
       LAMBDA salt :
  Then(deriveKeyFromPassword(password, <<salt>>, 0),
       LAMBDA d :
  Then(EncryptedOf(keyData),
       LAMBDA encrypted :
  Then(decryptSymmetric(encrypted, d.key),
       LAMBDA decryptedKeyData :
  subtleImportRaw(decryptedKeyData, this.algorithms.symmetric, FALSE,
                  {"encrypt", "decrypt"})))))))

\* ------------------------------------------------------------------------
\* Asymmetric and hybrid encryption (RSA-OAEP + AES-GCM), messaging
\* ------------------------------------------------------------------------

\* generateAsymmetricKeyPair()
generateAsymmetricKeyPair(seed) ==
  subtleGenerateRsaKey(ModulusLen * 8, TRUE, {"encrypt", "decrypt"}, seed)

\* exportPublicKey(keyPair)
exportPublicKey(keyPair) ==
  Then(subtleExportSpki(keyPair.publicKey),
       LAMBDA exported :
  ab2base64(exported))

\* importPublicKey(publicKeyBase64)
importPublicKey(publicKeyBase64) ==
  Then(base642ab(publicKeyBase64),
       LAMBDA keyData :
  subtleImportSpki(keyData, TRUE, {"encrypt"}))

\* encryptHybrid(data, publicKey).  Seeds: the draws for the symmetric key,
\* for the IV and for the RSA padding.
\* a faulty encryptHybrid: the symmetric key is the same in every call
encryptHybridReusedKey(data, publicKey, seedKey, seedIv, seedPad) ==
  Then(generateSymmetricKey(0),
       LAMBDA symmetricKey :
  Then(encryptSymmetric(data, symmetricKey, seedIv),
       LAMBDA encryptedData :
  Then(subtleExportRaw(symmetricKey),
       LAMBDA exportedKey :
  Then(subtleEncryptRsaOaep(publicKey, exportedKey, seedPad),
       LAMBDA encryptedKey :
  Then(ab2base64(encryptedKey),
       LAMBDA key64 :
  Ok([encryptedKey |-> key64,
      encryptedData |-> encryptedData,
      algorithm |-> Text("RSA-4096-OAEP+AES-256-GCM")]))))))

encryptHybrid(data, publicKey, seedKey, seedIv, seedPad) ==
  Then(generateSymmetricKey(seedKey),
       LAMBDA symmetricKey :
  Then(encryptSymmetric(data, symmetricKey, seedIv),
       LAMBDA encryptedData :
  Then(subtleExportRaw(symmetricKey),
       LAMBDA exportedKey :
  Then(subtleEncryptRsaOaep(publicKey, exportedKey, seedPad),
       LAMBDA encryptedKey :
  Then(ab2base64(encryptedKey),
       LAMBDA key64 :
  Ok([encryptedKey |-> key64,
      encryptedData |-> encryptedData,
      algorithm |-> Text("RSA-4096-OAEP+AES-256-GCM")]))))))

\* byte.toString(16).padStart(2, '0')
HexByte(byte) == <<HexDigit(byte \div 16), HexDigit(byte % 16)>>

\* generateSecureId(length = 32)
generateSecureId(length, seed) ==
  Then(getRandomValues(seed, length),
       LAMBDA array :
  Ok(Concat([i \in 1..length |-> HexByte(array[i])])))

\* encryptMessage(message, recipientPublicKey, senderPrivateKey): the third
\* argument is not read.  seedId: the draw for the message id; t: the clock
\* when the result is built.
encryptMessage(message, recipientPublicKey, seedKey, seedIv, seedPad, seedId, t) ==
  Then(importPublicKey(recipientPublicKey),
       LAMBDA publicKey :
  Then(encryptHybrid(message, publicKey, seedKey, seedIv, seedPad),
       LAMBDA encrypted :
  Then(generateSecureId(SecureIdLen, seedId),
       LAMBDA messageId :
  Ok([encryptedKey |-> encrypted.encryptedKey,
      encryptedData |-> encrypted.encryptedData,
      algorithm |-> encrypted.algorithm,
      timestamp |-> toISOString(t),
      messageId |-> messageId]))))

\* decryptHybrid(bundle, privateKey): the class defines no such method, so
\* the call throws before anything is decrypted
decryptHybrid(bundle, privateKey) ==
  Fail("TypeError", <<"decryptHybrid is not a function">>)

\* ------------------------------------------------------------------------
\* CryptoUtils
\* ------------------------------------------------------------------------

\* !!(window.crypto && window.crypto.subtle)
isWebCryptoSupported == Ok(window.crypto /\ window.subtle)

\* 'SMP Civic Encryption Test'
testData ==
  <<83, 77, 80, 32, 67, 105, 118, 105, 99, 32, 69, 110, 99, 114, 121, 112,
    116, 105, 111, 110, 32, 84, 101, 115, 116>>

\* a faulty testEncryption, without its try/catch
testEncryptionUncaught(seedKey, seedIv) ==
  Then(generateSymmetricKey(seedKey),
       LAMBDA key :
  Then(encryptSymmetric(JsString(testData), key, seedIv),
       LAMBDA encrypted :
  Then(decryptSymmetric(encrypted, key),
       LAMBDA decrypted :
  Ok(ab2str(decrypted) = testData))))

\* testEncryption(): the draws of the key and of the IV are seedKey and
\* seedIv
testEncryption(seedKey, seedIv) ==
  Caught(Then(generateSymmetricKey(seedKey),
              LAMBDA key :
         Then(encryptSymmetric(JsString(testData), key, seedIv),
              LAMBDA encrypted :
         Then(decryptSymmetric(encrypted, key),
              LAMBDA decrypted :
         Ok(ab2str(decrypted) = testData)))),
         FALSE)

\* ------------------------------------------------------------------------
\* SecurityDashboard: the file encryption of the page, which calls the host
\* directly
\* ------------------------------------------------------------------------

\* encryptSelectedFile(), for the selected file (<<>> when none is) and the
\* password typed: what it offers for download, under which name.  Seeds:
\* the draws for the salt and for the IV.
encryptSelectedFile(selectedFile, encryptionPassword, seedSalt, seedIv) ==
  IF selectedFile = <<>> \/ encryptionPassword = <<>>
  THEN Ok(<<>>)
  ELSE
  Caught(
  Then(Ok(selectedFile[1].bytes),
       LAMBDA fileBuffer :
  Then(getRandomValues(seedSalt, SaltLen),
       LAMBDA salt :
  Then(subtleImportRaw(str2ab(encryptionPassword), "PBKDF2", FALSE,
                       {"deriveBits", "deriveKey"}),
       LAMBDA keyMaterial :
  Then(subtleDeriveKey(salt, Iterations, "SHA-256", keyMaterial, FALSE,
                       {"encrypt", "decrypt"}),
       LAMBDA key :
  Then(getRandomValues(seedIv, IvLen),
       LAMBDA iv :
  Then(subtleEncryptAesGcm(iv, key, fileBuffer),
       LAMBDA encrypted :
  Ok(<<[encryptedData |->
          [encrypted |-> encrypted, iv |-> iv, salt |-> salt,
           originalName |-> selectedFile[1].name,
           originalSize |-> selectedFile[1].size,
           mimeType |-> selectedFile[1].type],
        download |-> selectedFile[1].name
                       \o <<46, 101, 110, 99, 114, 121, 112, 116, 101,
                            100>>]>>))))))),
  <<>>)

\* ------------------------------------------------------------------------
\* Bounds and inputs of the model
\* ------------------------------------------------------------------------

\* how many calls of each kind the caller makes
MaxKeys == 2

MaxDerived == 3

MaxBlobs == 2

MaxFiles == 1

MaxStores == 1

\* the draws of the random source after which the page encrypts no further
\* file
MaxDownloadDraws == 5

\* how many more storeKey calls the caller makes once the vault is in use
MaxRestores == 1

MaxPairs == 2

MaxBundles == 2

MaxPrints == 3

\* the most draws of the random source in a run of the start-up checks
MaxDraws == 12

\* the most calls in flight together
MaxInflight == 3

\* the most storeKey calls in flight together
MaxRacing == 2

\* the last reading of the clock, in milliseconds after its first
MaxTime == 1

\* the length that stands for a bulk payload: with its tag it is one call
\* argument too many
BulkLen == (MaxCallArgs - TagLen) + 1

\* "pw1", "pw2"
Pw1 == <<112, 119, 49>>

Pw2 == <<112, 119, 50>>

Passwords == {Pw1, Pw2}

\* "hi", "ih", "hello world", and a bulk payload
Hi == <<104, 105>>

Ih == <<105, 104>>

HelloWorld == <<104, 101, 108, 108, 111, 32, 119, 111, 114, 108, 100>>

Bulk == [i \in 1..BulkLen |-> i % 256]

\* "ping"
Ping == <<112, 105, 110, 103>>

\* what a caller passes as data: byte buffers, and a string
Payloads == {JsBuffer(HelloWorld), JsBuffer(Bulk), JsString(Ping)}

\* the bytes encryptSymmetric encrypts for payload data
BytesOf(data) == IF data.type = "string" THEN str2ab(data.v) ELSE data.v

\* "k1", "k2"
KeyIds == {<<107, 49>>, <<107, 50>>}

\* File objects: a note "a"b.txt" of type "Text/Plain", and a bulk file
\* "x" without a type
Files ==
  {[name |-> <<97, 34, 98, 46, 116, 120, 116>>, size |-> Len(HelloWorld),
    type |-> <<84, 101, 120, 116, 47, 80, 108, 97, 105, 110>>,
    bytes |-> HelloWorld],
   [name |-> <<120>>, size |-> BulkLen, type |-> <<>>, bytes |-> Bulk]}

\* the buffers the caller fingerprints
Fingerprinted == {<<>>, Hi, Ih, HelloWorld}

\* ------------------------------------------------------------------------
\* State
\* ------------------------------------------------------------------------

VARIABLES
  inflight, \* the encryptSymmetric and decryptSymmetric calls started and
            \* not awaited one by one: per call, its arguments, its local
            \* variables, and its result once it has completed
  rng,      \* the number of draws made from the host's random source
  now,      \* the host's clock
  keys,     \* the key handles generateSymmetricKey returned
  derived,  \* the deriveKeyFromPassword calls made: password, salt
            \* argument, and the {key, salt} returned
  blobs,    \* the encryptSymmetric calls made: data, key, result
  files,    \* the encryptFile calls made: file, password, result
  storage,  \* localStorage: item name -> value
  vault,    \* the storeKey calls made, in order: id, key, password, result
  pairs,    \* the key pairs generateAsymmetricKeyPair returned
  bundles,  \* the encryptHybrid and encryptMessage calls made: data, key
            \* pair of the recipient, result
  prints,   \* the createFileFingerprint calls made: buffer, result
  hostLog,  \* the draws of the random source and the AES-GCM encryptions
            \* the host has performed, in order
  last      \* the call that has just completed: its name, arguments and
            \* result; "none" once the caller has taken the result

vars == <<window, smpcrypto, inflight, rng, now, keys, derived, blobs,
          files, storage, vault, pairs, bundles, prints, hostLog, last>>

NoCall == [op |-> "none", res |-> Ok(<<>>)]

\* a host with every primitive
FullHost == [crypto |-> TRUE, subtle |-> TRUE]

\* the state once the module is loaded, in host w
InitIn(w) ==
  /\ window = w
  /\ smpcrypto = constructor(w)
  /\ inflight = <<>>
  /\ rng = 0
  /\ now = 0
  /\ keys = {}
  /\ derived = {}
  /\ blobs = {}
  /\ files = {}
  /\ storage = <<>>
  /\ vault = <<>>
  /\ pairs = {}
  /\ bundles = {}
  /\ prints = {}
  /\ hostLog = <<>>
  /\ last = NoCall

Init == InitIn(FullHost)

\* the module loaded in any of the hosts
InitAnyHost == \E w \in Hosts : InitIn(w)

\* the module was loaded: the importing page holds smpcrypto and CryptoUtils
Loaded == smpcrypto.ok

\* the draws of randomness among the host calls of trace
Draws(trace) ==
  Len(SelectSeq(trace, LAMBDA e :
        e.call \in {"getRandomValues", "generateKey", "encryptRsa"}))

\* the host calls of trace that hostLog keeps
Logged(trace) ==
  SelectSeq(trace, LAMBDA e : e.call \in {"getRandomValues", "encrypt"})

\* a faulty store: setItem keeps the value an item already has
RECURSIVE StoredKeepingFirst(_, _, _)
StoredKeepingFirst(store, trace, i) ==
  IF i > Len(trace) THEN store
  ELSE IF trace[i].call = "setItem" /\ trace[i].key \notin DOMAIN store
  THEN StoredKeepingFirst([n \in DOMAIN store \cup {trace[i].key} |->
                             IF n = trace[i].key THEN trace[i].input
                             ELSE store[n]],
                          trace, i + 1)
  ELSE StoredKeepingFirst(store, trace, i + 1)

\* the effect of the localStorage calls of trace on store
RECURSIVE Stored(_, _, _)
Stored(store, trace, i) ==
  IF i > Len(trace) THEN store
  ELSE IF trace[i].call = "setItem"
  THEN Stored([n \in DOMAIN store \cup {trace[i].key} |->
                 IF n = trace[i].key THEN trace[i].input ELSE store[n]],
              trace, i + 1)
  ELSE Stored(store, trace, i + 1)

\* what every completed call r leaves behind in the host
Host(r) ==
  /\ rng' = rng + Draws(r.trace)
  /\ hostLog' = hostLog \o Logged(r.trace)
  /\ storage' = Stored(storage, r.trace, 1)

\* The caller awaits each call: it makes the next one when it has taken the
\* result of the one before.
Idle == last.op = "none"

\* the caller takes the result of the completed call
TakeResult ==
  /\ last.op # "none"
  /\ last' = NoCall
  /\ UNCHANGED <<rng, now, keys, derived, blobs, files, storage, vault,
                 pairs, bundles, prints, hostLog>>
  /\ UNCHANGED <<window, smpcrypto, inflight>>

\* the clock advances between two calls
Tick ==
  /\ Idle
  /\ now < MaxTime
  /\ now' = now + 1
  /\ UNCHANGED <<rng, keys, derived, blobs, files, storage, vault, pairs,
                 bundles, prints, hostLog, last>>
  /\ UNCHANGED <<window, smpcrypto, inflight>>

\* every symmetric key handle the caller can pass to a call
HeldKeys == keys \cup {d.key : d \in derived}

\* ------------------------------------------------------------------------
\* Calls of the symmetric cipher and of key derivation
\* ------------------------------------------------------------------------

CallGenerateSymmetricKey ==
  /\ Idle
  /\ Loaded
  /\ Cardinality(keys) < MaxKeys
  /\ LET r == generateSymmetricKey(rng + 1)
     IN  /\ keys' = (IF r.ok THEN keys \cup {r.val} ELSE keys)
         /\ last' = [op |-> "generateSymmetricKey", res |-> r]
         /\ Host(r)
  /\ UNCHANGED <<now, derived, blobs, files, vault, pairs, bundles, prints>>
  /\ UNCHANGED <<window, smpcrypto, inflight>>

\* salt: null, a salt an earlier call returned, or an empty buffer
CallDeriveKeyFromPassword ==
  /\ Idle
  /\ Cardinality(derived) < MaxDerived
  /\ \E password \in Passwords :
       \E salt \in {<<>>, << <<>> >>} \cup {<<d.salt>> : d \in derived} :
         LET r == deriveKeyFromPassword(password, salt, rng + 1)
         IN  /\ derived' = derived \cup
                  {[password |-> password, arg |-> salt,
                    key |-> r.val.key, salt |-> r.val.salt]}
             /\ last' = [op |-> "deriveKeyFromPassword",
                         password |-> password, salt |-> salt, res |-> r]
             /\ Host(r)
  /\ UNCHANGED <<now, keys, blobs, files, vault, pairs, bundles, prints>>
  /\ UNCHANGED <<window, smpcrypto, inflight>>

\* deriveKeyFromPassword, by a caller that derives one key
CallDeriveOneKey ==
  /\ derived = {}
  /\ CallDeriveKeyFromPassword

CallEncryptSymmetric ==
  /\ Idle
  /\ Cardinality(blobs) < MaxBlobs
  /\ \E data \in Payloads, key \in HeldKeys :
       LET r == encryptSymmetric(data, key, rng + 1)
       IN  /\ blobs' = blobs \cup {[data |-> data, key |-> key, res |-> r]}
           /\ last' = [op |-> "encryptSymmetric", data |-> data,
                       key |-> key, res |-> r]
           /\ Host(r)
  /\ UNCHANGED <<now, keys, derived, files, vault, pairs, bundles, prints>>
  /\ UNCHANGED <<window, smpcrypto, inflight>>

\* decryptSymmetric on a blob as encryptSymmetric returned it
CallDecryptSymmetric ==
  /\ Idle
  /\ \E b \in blobs, key \in HeldKeys :
       /\ b.res.ok
       /\ LET r == decryptSymmetric(b.res.val, key)
          IN  /\ last' = [op |-> "decryptSymmetric", origin |-> b,
                          tamper |-> "none", blob |-> b.res.val,
                          key |-> key, res |-> r]
              /\ Host(r)
  /\ UNCHANGED <<now, keys, derived, blobs, files, vault, pairs, bundles,
                 prints>>
  /\ UNCHANGED <<window, smpcrypto, inflight>>

\* the blob with bit `bit` of byte i of its ciphertext flipped
FlipCiphertextBit(blob, i, bit) ==
  [blob EXCEPT !.ciphertext =
     ab2base64(FlipBufferBit(base642ab(blob.ciphertext).val, i, bit)).val]

\* decryptSymmetric, with the key of the encryption, on a blob of which one
\* ciphertext bit was flipped
CallDecryptFlipped ==
  /\ Idle
  /\ \E b \in blobs :
       /\ b.res.ok
       /\ \E i \in 1..Len(base642ab(b.res.val.ciphertext).val),
             bit \in 0..7 :
            LET blob == FlipCiphertextBit(b.res.val, i, bit)
                r == decryptSymmetric(blob, b.key)
            IN  /\ last' = [op |-> "decryptSymmetric", origin |-> b,
                            tamper |-> "bit", blob |-> blob, key |-> b.key,
                            res |-> r]
                /\ Host(r)
  /\ UNCHANGED <<now, keys, derived, blobs, files, vault, pairs, bundles,
                 prints>>
  /\ UNCHANGED <<window, smpcrypto, inflight>>

\* the blob with its ciphertext or its iv corrupted: one bit of the first
\* byte flipped ("bit"), or the first character of the base64 text replaced
\* by "!" ("char")
Corrupted(blob, field, kind) ==
  [blob EXCEPT
     ![field] =
       IF kind = "bit"
       THEN ab2base64(FlipBufferBit(base642ab(@).val, 1, 0)).val
       ELSE [@ EXCEPT ![1] = 33]]

\* decryptSymmetric, with the key of the encryption, on a blob that was
\* corrupted on its way back
CallDecryptCorrupted ==
  /\ Idle
  /\ \E b \in blobs :
       /\ b.res.ok
       /\ \E field \in {"ciphertext", "iv"}, kind \in {"bit", "char"} :
            LET blob == Corrupted(b.res.val, field, kind)
                r == decryptSymmetric(blob, b.key)
            IN  /\ last' = [op |-> "decryptSymmetric", origin |-> b,
                            tamper |-> kind, field |-> field, blob |-> blob,
                            key |-> b.key, res |-> r]
                /\ Host(r)
  /\ UNCHANGED <<now, keys, derived, blobs, files, vault, pairs, bundles,
                 prints>>
  /\ UNCHANGED <<window, smpcrypto, inflight>>

\* ------------------------------------------------------------------------
\* Calls in flight.  An async method runs up to its await when it is
\* called, and from its await to its return when the host settles the
\* promise; between the two, other calls start and resume.  inflight lists
\* the calls in the order they were started: the locals of each (iv), the
\* promise it awaits (awaited), and its result once it has returned (res).

\* the result slot of a call that has not returned
Pending == Ok(<<>>)

\* a faulty engine that keeps the IV in a field of the instance: every
\* call reads the IV of the call started last
IvOfLastStarted(call) ==
  LET started == {c \in DOMAIN inflight :
                    inflight[c].op = "encryptSymmetric"}
  IN  inflight[CHOOSE c \in started : \A d \in started : d <= c].iv

\* const iv: a local of the call
IvOf(call) == call.iv

\* encryptSymmetric up to its await: the IV is drawn and subtle.encrypt is
\* called with it
StartEncryptSymmetric ==
  /\ Len(inflight) < MaxInflight
  /\ \E data \in Payloads, key \in HeldKeys :
       /\ Len(BytesOf(data)) < BulkLen
       /\ LET iv == getRandomValues(rng + 1, IvLen)
              awaited == subtleEncryptAesGcm(iv.val, key, BytesOf(data))
          IN  /\ inflight' =
                   Append(inflight,
                          [op |-> "encryptSymmetric", input |-> data,
                           key |-> key, seed |-> rng + 1, iv |-> iv.val,
                           trace |-> iv.trace, awaited |-> awaited,
                           done |-> FALSE, resumedAt |-> 0,
                           res |-> Pending])
              /\ rng' = rng + Draws(iv.trace)
              /\ hostLog' = hostLog \o Logged(iv.trace \o awaited.trace)
  /\ UNCHANGED <<now, keys, derived, blobs, files, storage, vault, pairs,
                 bundles, prints, last>>
  /\ UNCHANGED <<window, smpcrypto>>

\* encryptSymmetric from its await to its return
encryptSymmetricResumed(call) ==
  After(call.trace,
  Then(call.awaited,
       LAMBDA encrypted :
  Then(ab2base64(encrypted),
       LAMBDA ciphertext :
  Then(ab2base64(IvOf(call)),
       LAMBDA iv64 :
  Ok([ciphertext |-> ciphertext, iv |-> iv64,
      algorithm |-> Text(this.algorithms.symmetric)])))))

\* the host settles the promise of subtle.encrypt of a call in flight
ResumeEncryptSymmetric ==
  /\ \E c \in DOMAIN inflight :
       /\ inflight[c].op = "encryptSymmetric"
       /\ ~inflight[c].done
       /\ inflight' =
            [inflight EXCEPT
               ![c].done = TRUE,
               ![c].resumedAt = Len(inflight),
               ![c].res = encryptSymmetricResumed(inflight[c])]
  /\ UNCHANGED <<rng, now, keys, derived, blobs, files, storage, vault,
                 pairs, bundles, prints, hostLog, last>>
  /\ UNCHANGED <<window, smpcrypto>>

\* decryptSymmetric up to its await, on the blob a call in flight has
\* returned: both texts are decoded and subtle.decrypt is called
StartDecryptSymmetric ==
  /\ Len(inflight) < MaxInflight
  /\ \E b \in DOMAIN inflight, key \in HeldKeys :
       /\ inflight[b].op = "encryptSymmetric"
       /\ inflight[b].done
       /\ inflight[b].res.ok
       /\ LET blob == inflight[b].res.val
              awaited ==
                Then(base642ab(blob.ciphertext),
                     LAMBDA ciphertext :
                Then(base642ab(blob.iv),
                     LAMBDA iv :
                subtleDecryptAesGcm(iv, key, ciphertext)))
          IN  /\ inflight' =
                   Append(inflight,
                          [op |-> "decryptSymmetric", input |-> blob,
                           key |-> key, seed |-> 0,
                           iv |-> base642ab(blob.iv).val,
                           trace |-> <<>>, awaited |-> awaited,
                           done |-> FALSE, resumedAt |-> 0,
                           res |-> Pending])
              /\ hostLog' = hostLog \o Logged(awaited.trace)
  /\ UNCHANGED <<rng, now, keys, derived, blobs, files, storage, vault,
                 pairs, bundles, prints, last>>
  /\ UNCHANGED <<window, smpcrypto>>

\* decryptSymmetric from its await to its return
decryptSymmetricResumed(call) ==
  After(call.trace,
  Then(call.awaited,
       LAMBDA decrypted :
  Ok(decrypted)))

\* the host settles the promise of subtle.decrypt of a call in flight
ResumeDecryptSymmetric ==
  /\ \E c \in DOMAIN inflight :
       /\ inflight[c].op = "decryptSymmetric"
       /\ ~inflight[c].done
       /\ inflight' =
            [inflight EXCEPT
               ![c].done = TRUE,
               ![c].resumedAt = Len(inflight),
               ![c].res = decryptSymmetricResumed(inflight[c])]
  /\ UNCHANGED <<rng, now, keys, derived, blobs, files, storage, vault,
                 pairs, bundles, prints, hostLog, last>>
  /\ UNCHANGED <<window, smpcrypto>>

\* storeKey in flight.  The call runs in three stretches: from the call to
\* the await of the derivation (the salt is drawn), from there through the
\* export to the await of the encryption (the IV is drawn), and from there
\* to the end, where keyData is built and written without a further await.

\* a faulty engine that keeps the salt in a field of the instance: every
\* call reads the salt of the call started last
SaltInLastStarted(call) == inflight[Len(inflight)].awaited.val.salt

\* const { key: derivedKey, salt }: locals of the call
SaltIn(call) == call.awaited.val.salt

\* storeKey up to the await of deriveKeyFromPassword
StartStoreKey ==
  /\ Len(inflight) < MaxRacing
  /\ \E keyId \in KeyIds, key \in keys, password \in Passwords :
       LET awaited == deriveKeyFromPassword(password, <<>>, rng + 1)
       IN  /\ inflight' =
                Append(inflight,
                       [op |-> "storeKey", keyId |-> keyId, key |-> key,
                        password |-> password, seedSalt |-> rng + 1,
                        seedIv |-> 0, t |-> 0, pc |-> "derive",
                        awaited |-> awaited, encrypted |-> Pending,
                        done |-> FALSE, writtenAt |-> 0, res |-> Pending])
           /\ rng' = rng + Draws(awaited.trace)
           /\ hostLog' = hostLog \o Logged(awaited.trace)
  /\ UNCHANGED <<now, keys, derived, blobs, files, storage, vault, pairs,
                 bundles, prints, last>>
  /\ UNCHANGED <<window, smpcrypto>>

\* storeKey from the derivation to the await of the encryption: the key is
\* exported and encryptSymmetric is called, which draws the IV
storeKeyExported(call, seed) ==
  Then(call.awaited,
       LAMBDA d :
  Then(subtleExportRaw(call.key),
       LAMBDA exportedKey :
  encryptSymmetric(JsBuffer(exportedKey), d.key, seed)))

\* the host calls of r that the call made after its first stretch
MadeLater(call, r) ==
  SubSeq(r.trace, Len(call.awaited.trace) + 1, Len(r.trace))

ContinueStoreKey ==
  /\ \E c \in DOMAIN inflight :
       /\ inflight[c].op = "storeKey"
       /\ inflight[c].pc = "derive"
       /\ inflight' =
            [inflight EXCEPT
               ![c].pc = "encrypt",
               ![c].seedIv = rng + 1,
               ![c].encrypted = storeKeyExported(inflight[c], rng + 1)]
       /\ rng' = rng + Draws(MadeLater(inflight[c],
                                       storeKeyExported(inflight[c], rng + 1)))
       /\ hostLog' =
            hostLog \o Logged(MadeLater(inflight[c],
                                        storeKeyExported(inflight[c], rng + 1)))
  /\ UNCHANGED <<now, keys, derived, blobs, files, storage, vault, pairs,
                 bundles, prints, last>>
  /\ UNCHANGED <<window, smpcrypto>>

\* storeKey from the encryption to its end: keyData is built at clock
\* reading t and written
storeKeyWritten(call, t) ==
  Then(call.encrypted,
       LAMBDA encrypted :
  Then(ab2base64(SaltIn(call)),
       LAMBDA salt :
  setItem(ItemName(call.keyId), KeyDataJson(encrypted, salt, t))))

FinishStoreKey ==
  /\ \E c \in DOMAIN inflight :
       /\ inflight[c].op = "storeKey"
       /\ inflight[c].pc = "encrypt"
       /\ inflight' =
            [inflight EXCEPT
               ![c].pc = "done",
               ![c].done = TRUE,
               ![c].t = now,
               ![c].writtenAt =
                 1 + Cardinality({d \in DOMAIN inflight : inflight[d].done}),
               ![c].res = storeKeyWritten(inflight[c], now)]
       /\ storage' = Stored(storage, storeKeyWritten(inflight[c], now).trace, 1)
  /\ UNCHANGED <<rng, now, keys, derived, blobs, files, vault, pairs,
                 bundles, prints, hostLog, last>>
  /\ UNCHANGED <<window, smpcrypto>>

\* ------------------------------------------------------------------------
\* Calls of the file pipeline and of the fingerprint
\* ------------------------------------------------------------------------

\* encryptFile reads the clock twice: for the metadata, and later for the
\* fingerprint
CallEncryptFile ==
  /\ Idle
  /\ Cardinality(files) < MaxFiles
  /\ \E file \in Files, password \in Passwords, t2 \in now..MaxTime :
       LET r == encryptFile(file, password, rng + 1, rng + 2, rng + 3,
                            now, t2)
       IN  /\ files' = files \cup
                 {[file |-> file, password |-> password, res |-> r]}
           /\ last' = [op |-> "encryptFile", file |-> file,
                       password |-> password, res |-> r]
           /\ now' = t2
           /\ Host(r)
  /\ UNCHANGED <<keys, derived, blobs, vault, pairs, bundles, prints>>
  /\ UNCHANGED <<window, smpcrypto, inflight>>

\* decryptFile on a bundle as encryptFile returned it
CallDecryptFile ==
  /\ Idle
  /\ \E f \in files, password \in Passwords :
       /\ f.res.ok
       /\ LET r == decryptFile(f.res.val, password)
          IN  /\ last' = [op |-> "decryptFile", origin |-> f,
                          tamper |-> "none", password |-> password,
                          res |-> r]
              /\ Host(r)
  /\ UNCHANGED <<now, keys, derived, blobs, files, vault, pairs, bundles,
                 prints>>
  /\ UNCHANGED <<window, smpcrypto, inflight>>

\* the positions at which a blob on its way back is damaged: the first and
\* the last byte of the ciphertext, the lowest and the highest bit
FlippedBytes(blob) == {1, Len(base642ab(blob.ciphertext).val)}

FlippedBits == {0, 7}

\* decryptFile, with the password of the encryption, on a bundle of which
\* one bit of the content blob or of the metadata blob was flipped
CallDecryptFileTampered ==
  /\ Idle
  /\ \E f \in files :
       /\ f.res.ok
       /\ \E part \in {"encryptedContent", "encryptedMetadata"},
             bit \in FlippedBits :
            \E i \in FlippedBytes(f.res.val[part]) :
              LET r == decryptFile(
                         [f.res.val EXCEPT
                            ![part] = FlipCiphertextBit(@, i, bit)],
                         f.password)
              IN  /\ last' = [op |-> "decryptFile", origin |-> f,
                              tamper |-> part, password |-> f.password,
                              res |-> r]
                  /\ Host(r)
  /\ UNCHANGED <<now, keys, derived, blobs, files, vault, pairs, bundles,
                 prints>>
  /\ UNCHANGED <<window, smpcrypto, inflight>>

\* the key encryptFile derived for bundle record f, as the host holds it
KeyOfBundle(f) ==
  LET i == CHOOSE i \in 1..Len(f.res.trace) : f.res.trace[i].call = "deriveKey"
  IN  CryptoKey("secret", "AES-GCM", FALSE, {"encrypt", "decrypt"},
                f.res.trace[i].output)

\* decryptSymmetric on the content blob of a bundle, under a key handle the
\* caller holds
CallDecryptContent ==
  /\ Idle
  /\ \E f \in files, key \in HeldKeys :
       /\ f.res.ok
       /\ LET r == decryptSymmetric(f.res.val.encryptedContent, key)
          IN  /\ last' = [op |-> "decryptSymmetric",
                          origin |-> [data |-> JsBuffer(f.file.bytes),
                                      key |-> KeyOfBundle(f),
                                      res |-> Ok(f.res.val.encryptedContent)],
                          tamper |-> "none",
                          blob |-> f.res.val.encryptedContent,
                          key |-> key, res |-> r]
              /\ Host(r)
  /\ UNCHANGED <<now, keys, derived, blobs, files, vault, pairs, bundles,
                 prints>>
  /\ UNCHANGED <<window, smpcrypto, inflight>>

CallCreateFileFingerprint ==
  /\ Idle
  /\ Cardinality(prints) < MaxPrints
  /\ \E fileBuffer \in Fingerprinted :
       LET r == createFileFingerprint(fileBuffer, now)
       IN  /\ prints' = prints \cup {[data |-> fileBuffer, res |-> r]}
           /\ last' = [op |-> "createFileFingerprint",
                       data |-> fileBuffer, res |-> r]
           /\ Host(r)
  /\ UNCHANGED <<now, keys, derived, blobs, files, vault, pairs, bundles>>
  /\ UNCHANGED <<window, smpcrypto, inflight>>

\* verifyFileIntegrity of a buffer against a fingerprint made earlier
CallVerifyFileIntegrity ==
  /\ Idle
  /\ \E fileBuffer \in Fingerprinted, p \in prints :
       /\ p.res.ok
       /\ LET r == verifyFileIntegrity(fileBuffer, p.res.val, now)
          IN  /\ last' = [op |-> "verifyFileIntegrity",
                          data |-> fileBuffer, origin |-> p, res |-> r]
              /\ Host(r)
  /\ UNCHANGED <<now, keys, derived, blobs, files, vault, pairs, bundles,
                 prints>>
  /\ UNCHANGED <<window, smpcrypto, inflight>>

\* a fingerprint made earlier with one member replaced: the size by the
\* next one, the timestamp by a later one, the hash by that of other
\* fingerprints
Altered(fingerprint) ==
  {[fingerprint EXCEPT !.size = @ + 1],
   [fingerprint EXCEPT !.timestamp = toISOString(MaxTime + 1)]}
    \cup {[fingerprint EXCEPT !.sha256 = p.res.val.sha256] :
            p \in {q \in prints : q.res.ok}}

\* verifyFileIntegrity of a buffer against an altered fingerprint
CallVerifyAlteredFingerprint ==
  /\ Idle
  /\ \E fileBuffer \in Fingerprinted, p \in prints :
       /\ p.res.ok
       /\ \E expected \in Altered(p.res.val) :
            LET r == verifyFileIntegrity(fileBuffer, expected, now)
            IN  /\ last' = [op |-> "verifyFileIntegrity",
                            data |-> fileBuffer, origin |-> p,
                            expected |-> expected, res |-> r]
                /\ Host(r)
  /\ UNCHANGED <<now, keys, derived, blobs, files, vault, pairs, bundles,
                 prints>>
  /\ UNCHANGED <<window, smpcrypto, inflight>>

\* decryptFile, with the password of the encryption, on a bundle whose
\* fileFingerprint was replaced; the blobs and the salt are as returned
CallDecryptFileReplacedFingerprint ==
  /\ Idle
  /\ \E f \in files :
       /\ f.res.ok
       /\ \E replaced \in Altered(f.res.val.fileFingerprint)
                           \ {f.res.val.fileFingerprint} :
            LET r == decryptFile([f.res.val EXCEPT !.fileFingerprint = replaced],
                                 f.password)
            IN  /\ last' = [op |-> "decryptFile", origin |-> f,
                            tamper |-> "fileFingerprint",
                            password |-> f.password, res |-> r]
                /\ Host(r)
  /\ UNCHANGED <<now, keys, derived, blobs, files, vault, pairs, bundles,
                 prints>>
  /\ UNCHANGED <<window, smpcrypto, inflight>>

\* the caller verifies what decryptFile has just returned: the content
\* against the fingerprint
CallVerifyDecrypted ==
  /\ last.op = "decryptFile"
  /\ last.res.ok
  /\ LET r == verifyFileIntegrity(last.res.val.blob.bytes,
                                  last.res.val.fingerprint, now)
     IN  /\ last' = [op |-> "verifyFileIntegrity",
                     data |-> last.res.val.blob.bytes, origin |-> last.origin,
                     tamper |-> last.tamper,
                     expected |-> last.res.val.fingerprint, res |-> r]
         /\ Host(r)
  /\ UNCHANGED <<now, keys, derived, blobs, files, vault, pairs, bundles,
                 prints>>
  /\ UNCHANGED <<window, smpcrypto, inflight>>

\* ------------------------------------------------------------------------
\* Calls of key management
\* ------------------------------------------------------------------------

CallStoreKey ==
  /\ Idle
  /\ Len(vault) < MaxStores
  /\ \E keyId \in KeyIds, key \in HeldKeys, password \in Passwords :
       LET r == storeKey(keyId, key, password, rng + 1, rng + 2, now)
       IN  /\ vault' = Append(vault, [keyId |-> keyId, key |-> key,
                                      password |-> password, res |-> r])
           /\ last' = [op |-> "storeKey", keyId |-> keyId, key |-> key,
                       password |-> password, res |-> r]
           /\ Host(r)
  /\ UNCHANGED <<now, keys, derived, blobs, files, pairs, bundles, prints>>
  /\ UNCHANGED <<window, smpcrypto, inflight>>

\* the storeKey call that wrote the entry now stored under keyId, if any
EntryOf(keyId) ==
  LET written == {i \in 1..Len(vault) :
                    vault[i].keyId = keyId /\ vault[i].res.ok}
  IN  IF written = {} THEN <<>>
      ELSE <<vault[CHOOSE i \in written : \A j \in written : j <= i]>>

CallRetrieveKey ==
  /\ Idle
  /\ \E keyId \in KeyIds, password \in Passwords :
       LET r == retrieveKey(keyId, password, storage)
       IN  /\ last' = [op |-> "retrieveKey", keyId |-> keyId,
                       password |-> password, entry |-> EntryOf(keyId),
                       res |-> r]
           /\ Host(r)
  /\ UNCHANGED <<now, keys, derived, blobs, files, vault, pairs, bundles,
                 prints>>
  /\ UNCHANGED <<window, smpcrypto, inflight>>

\* storeKey with the handle that retrieveKey has just returned
CallStoreRetrievedKey ==
  /\ last.op = "retrieveKey"
  /\ last.res.ok
  /\ Len(vault) < MaxStores + MaxRestores
  /\ \E keyId \in KeyIds, password \in Passwords :
       LET r == storeKey(keyId, last.res.val, password, rng + 1, rng + 2, now)
       IN  /\ vault' = Append(vault, [keyId |-> keyId, key |-> last.res.val,
                                      password |-> password, res |-> r])
           /\ last' = [op |-> "storeKey", keyId |-> keyId,
                       key |-> last.res.val, password |-> password,
                       res |-> r]
           /\ Host(r)
  /\ UNCHANGED <<now, keys, derived, blobs, files, pairs, bundles, prints>>
  /\ UNCHANGED <<window, smpcrypto, inflight>>

\* storeKey called after an earlier storeKey call has completed
CallStoreKeyAgain ==
  /\ Idle
  /\ Len(vault) >= 1
  /\ Len(vault) < MaxStores + MaxRestores
  /\ \E keyId \in KeyIds, key \in keys, password \in Passwords :
       LET r == storeKey(keyId, key, password, rng + 1, rng + 2, now)
       IN  /\ vault' = Append(vault, [keyId |-> keyId, key |-> key,
                                      password |-> password, res |-> r])
           /\ last' = [op |-> "storeKey", keyId |-> keyId, key |-> key,
                       password |-> password, res |-> r]
           /\ Host(r)
  /\ UNCHANGED <<now, keys, derived, blobs, files, pairs, bundles, prints>>
  /\ UNCHANGED <<window, smpcrypto, inflight>>

\* the storage collaborator removes an item from localStorage
RemoveItem ==
  /\ Idle
  /\ \E name \in DOMAIN storage :
       storage' = [n \in DOMAIN storage \ {name} |-> storage[n]]
  /\ UNCHANGED <<window, smpcrypto, inflight, rng, now, keys, derived, blobs,
                 files, vault, pairs, bundles, prints, hostLog, last>>

\* ------------------------------------------------------------------------
\* Calls of asymmetric and hybrid encryption
\* ------------------------------------------------------------------------

CallGenerateAsymmetricKeyPair ==
  /\ Idle
  /\ Cardinality(pairs) < MaxPairs
  /\ LET r == generateAsymmetricKeyPair(rng + 1)
     IN  /\ pairs' = pairs \cup {r.val}
         /\ last' = [op |-> "generateAsymmetricKeyPair", res |-> r]
         /\ Host(r)
  /\ UNCHANGED <<now, keys, derived, blobs, files, vault, bundles, prints>>
  /\ UNCHANGED <<window, smpcrypto, inflight>>

CallExportPublicKey ==
  /\ Idle
  /\ \E keyPair \in pairs :
       LET r == exportPublicKey(keyPair)
       IN  /\ last' = [op |-> "exportPublicKey", pair |-> keyPair,
                       res |-> r]
           /\ Host(r)
  /\ UNCHANGED <<now, keys, derived, blobs, files, vault, pairs, bundles,
                 prints>>
  /\ UNCHANGED <<window, smpcrypto, inflight>>

CallEncryptHybrid ==
  /\ Idle
  /\ Cardinality(bundles) < MaxBundles
  /\ \E data \in Payloads, keyPair \in pairs :
       LET r == encryptHybrid(data, keyPair.publicKey, rng + 1, rng + 2,
                              rng + 3)
       IN  /\ bundles' = bundles \cup
                 {[op |-> "encryptHybrid", data |-> data, pair |-> keyPair,
                   res |-> r]}
           /\ last' = [op |-> "encryptHybrid", data |-> data,
                       pair |-> keyPair, res |-> r]
           /\ Host(r)
  /\ UNCHANGED <<now, keys, derived, blobs, files, vault, pairs, prints>>
  /\ UNCHANGED <<window, smpcrypto, inflight>>

\* the messages a sender encrypts: "ping", "hi"
Messages == {JsString(Ping), JsString(Hi)}

\* encryptMessage for a recipient whose public key was exported with
\* exportPublicKey
CallEncryptMessage ==
  /\ Idle
  /\ Cardinality(bundles) < MaxBundles
  /\ \E message \in Messages, keyPair \in pairs :
       LET r == encryptMessage(message, exportPublicKey(keyPair).val,
                               rng + 1, rng + 2, rng + 3, rng + 4, now)
       IN  /\ bundles' = bundles \cup
                 {[op |-> "encryptMessage", data |-> message,
                   pair |-> keyPair, res |-> r]}
           /\ last' = [op |-> "encryptMessage", data |-> message,
                       pair |-> keyPair, res |-> r]
           /\ Host(r)
  /\ UNCHANGED <<now, keys, derived, blobs, files, vault, pairs, prints>>
  /\ UNCHANGED <<window, smpcrypto, inflight>>

\* decryptHybrid on a bundle as encryptHybrid or encryptMessage returned it,
\* with a private key of the caller
CallDecryptHybrid ==
  /\ Idle
  /\ \E b \in bundles, keyPair \in pairs :
       /\ b.res.ok
       /\ LET r == decryptHybrid(b.res.val, keyPair.privateKey)
          IN  /\ last' = [op |-> "decryptHybrid", origin |-> b,
                          pair |-> keyPair, res |-> r]
              /\ Host(r)
  /\ UNCHANGED <<now, keys, derived, blobs, files, vault, pairs, bundles,
                 prints>>
  /\ UNCHANGED <<window, smpcrypto, inflight>>

\* ------------------------------------------------------------------------
\* Calls of CryptoUtils
\* ------------------------------------------------------------------------

CallIsWebCryptoSupported ==
  /\ Idle
  /\ Loaded
  /\ last' = [op |-> "isWebCryptoSupported", res |-> isWebCryptoSupported]
  /\ UNCHANGED <<rng, now, keys, derived, blobs, files, storage, vault,
                 pairs, bundles, prints, hostLog>>
  /\ UNCHANGED <<window, smpcrypto, inflight>>

CallTestEncryption ==
  /\ Idle
  /\ Loaded
  /\ rng + 2 <= MaxDraws
  /\ LET r == testEncryption(rng + 1, rng + 2)
     IN  /\ last' = [op |-> "testEncryption", seedKey |-> rng + 1,
                     seedIv |-> rng + 2, res |-> r]
         /\ Host(r)
  /\ UNCHANGED <<now, keys, derived, blobs, files, vault, pairs, bundles,
                 prints>>
  /\ UNCHANGED <<window, smpcrypto, inflight>>

\* ------------------------------------------------------------------------
\* Calls of the dashboard
\* ------------------------------------------------------------------------

CallEncryptSelectedFile ==
  /\ Idle
  /\ rng + 2 <= MaxDownloadDraws
  /\ \E selectedFile \in {<<>>} \cup {<<file>> : file \in Files},
        encryptionPassword \in {<<>>} \cup Passwords :
       LET r == encryptSelectedFile(selectedFile, encryptionPassword,
                                    rng + 1, rng + 2)
       IN  /\ last' = [op |-> "encryptSelectedFile",
                       selectedFile |-> selectedFile,
                       encryptionPassword |-> encryptionPassword, res |-> r]
           /\ Host(r)
  /\ UNCHANGED <<now, keys, derived, blobs, files, vault, pairs, bundles,
                 prints>>
  /\ UNCHANGED <<window, smpcrypto, inflight>>

\* ------------------------------------------------------------------------
\* Specifications
\* ------------------------------------------------------------------------

\* the symmetric cipher
NextSym ==
  \/ CallGenerateSymmetricKey
  \/ CallEncryptSymmetric
  \/ CallDecryptSymmetric
  \/ TakeResult

SpecSym == Init /\ [][NextSym]_vars

\* the symmetric cipher, and a blob tampered with on its way back
NextTamper ==
  \/ CallGenerateSymmetricKey
  \/ CallEncryptSymmetric
  \/ CallDecryptFlipped
  \/ TakeResult

SpecTamper == Init /\ [][NextTamper]_vars

\* key derivation
NextKdf ==
  \/ CallDeriveKeyFromPassword
  \/ TakeResult

SpecKdf == Init /\ [][NextKdf]_vars

\* every operation that encrypts under a key the caller can use twice
NextNonce ==
  \/ CallGenerateSymmetricKey
  \/ CallEncryptSymmetric
  \/ CallEncryptFile
  \/ TakeResult

SpecNonce == Init /\ [][NextNonce]_vars

\* the file pipeline
NextFile ==
  \/ CallEncryptFile
  \/ CallDecryptFile
  \/ CallCreateFileFingerprint
  \/ Tick
  \/ TakeResult

SpecFile == Init /\ [][NextFile]_vars

\* the key vault and the symmetric cipher
NextVault ==
  \/ CallGenerateSymmetricKey
  \/ CallEncryptSymmetric
  \/ CallStoreKey
  \/ CallRetrieveKey
  \/ TakeResult

SpecVault == Init /\ [][NextVault]_vars

\* the operations that take a password
NextPassword ==
  \/ CallEncryptFile
  \/ CallDecryptFile
  \/ CallGenerateSymmetricKey
  \/ CallStoreKey
  \/ CallRetrieveKey
  \/ TakeResult

SpecPassword == Init /\ [][NextPassword]_vars

\* the key vault and its storage collaborator
NextStore ==
  \/ CallGenerateSymmetricKey
  \/ CallStoreKey
  \/ RemoveItem
  \/ CallRetrieveKey
  \/ TakeResult

SpecStore == Init /\ [][NextStore]_vars

\* every operation that decrypts, on what the caller can pass to it
NextDecrypt ==
  \/ CallGenerateSymmetricKey
  \/ CallEncryptFile
  \/ CallDecryptFile
  \/ CallDecryptFileTampered
  \/ CallDecryptContent
  \/ CallStoreKey
  \/ CallRetrieveKey
  \/ TakeResult

SpecDecrypt == Init /\ [][NextDecrypt]_vars

\* the symmetric cipher, on blobs under a wrong key and on corrupted blobs
NextOracle ==
  \/ CallGenerateSymmetricKey
  \/ CallEncryptSymmetric
  \/ CallDecryptSymmetric
  \/ CallDecryptCorrupted
  \/ TakeResult

SpecOracle == Init /\ [][NextOracle]_vars

\* encryptSymmetric and decryptSymmetric calls in flight together
NextConcurrent ==
  \/ CallGenerateSymmetricKey
  \/ TakeResult
  \/ StartEncryptSymmetric
  \/ ResumeEncryptSymmetric
  \/ StartDecryptSymmetric
  \/ ResumeDecryptSymmetric

SpecConcurrent == Init /\ [][NextConcurrent]_vars

\* the module loaded in a host with or without the primitives, the checks
\* of CryptoUtils and the first operation of the engine
NextStartup ==
  \/ CallIsWebCryptoSupported
  \/ CallTestEncryption
  \/ CallGenerateSymmetricKey
  \/ TakeResult

SpecStartup == InitAnyHost /\ [][NextStartup]_vars

\* the key handles of the engine, and what storeKey does with each
NextHandle ==
  \/ CallGenerateSymmetricKey
  \/ CallDeriveOneKey
  \/ CallStoreKey
  \/ CallRetrieveKey
  \/ CallStoreRetrievedKey
  \/ TakeResult

SpecHandle == Init /\ [][NextHandle]_vars

\* the two file encryptions: the engine's and the dashboard's
NextMetadata ==
  \/ CallEncryptFile
  \/ CallEncryptSelectedFile
  \/ Tick
  \/ TakeResult

SpecMetadata == Init /\ [][NextMetadata]_vars

\* the fingerprint and its verification, against fingerprints as they were
\* made and against altered ones
NextIntegrity ==
  \/ CallCreateFileFingerprint
  \/ CallVerifyFileIntegrity
  \/ CallVerifyAlteredFingerprint
  \/ Tick
  \/ TakeResult

SpecIntegrity == Init /\ [][NextIntegrity]_vars

\* decryptFile and the fingerprint of the bundle
NextUnchecked ==
  \/ CallEncryptFile
  \/ CallCreateFileFingerprint
  \/ CallDecryptFile
  \/ CallDecryptFileReplacedFingerprint
  \/ CallVerifyDecrypted
  \/ TakeResult

SpecUnchecked == Init /\ [][NextUnchecked]_vars

\* storeKey after storeKey
NextReplace ==
  \/ CallGenerateSymmetricKey
  \/ CallStoreKey
  \/ CallStoreKeyAgain
  \/ Tick
  \/ TakeResult

SpecReplace == Init /\ [][NextReplace]_vars

\* storeKey calls in flight together
NextRace ==
  \/ CallGenerateSymmetricKey
  \/ TakeResult
  \/ StartStoreKey
  \/ ContinueStoreKey
  \/ FinishStoreKey

SpecRace == Init /\ [][NextRace]_vars

\* asymmetric and hybrid encryption
NextHybrid ==
  \/ CallGenerateAsymmetricKeyPair
  \/ CallExportPublicKey
  \/ CallEncryptHybrid
  \/ CallEncryptMessage
  \/ CallDecryptHybrid
  \/ TakeResult

SpecHybrid == Init /\ [][NextHybrid]_vars

\* fingerprints
NextPrint ==
  \/ CallCreateFileFingerprint
  \/ CallVerifyFileIntegrity
  \/ Tick
  \/ TakeResult

SpecPrint == Init /\ [][NextPrint]_vars

\* the engine with every operation
Next ==
  \/ NextSym
  \/ NextTamper
  \/ NextKdf
  \/ NextNonce
  \/ NextFile
  \/ NextVault
  \/ NextPassword
  \/ NextStore
  \/ NextOracle
  \/ NextConcurrent
  \/ NextStartup
  \/ NextHandle
  \/ NextRace
  \/ NextReplace
  \/ NextUnchecked
  \/ NextIntegrity
  \/ NextMetadata
  \/ NextDecrypt
  \/ NextHybrid
  \/ NextPrint

Spec == Init /\ [][Next]_vars

\* ------------------------------------------------------------------------
\* Properties
\* ------------------------------------------------------------------------

\* the other password
OtherPassword(password) == IF password = Pw1 THEN Pw2 ELSE Pw1

\* C1: every encryptSymmetric call returns a blob, whatever the size of the
\* data, and decryptSymmetric of that blob under the same key returns
\* exactly the data.
C1_RoundTrip ==
  /\ \A b \in blobs : b.res.ok
  /\ (last.op = "decryptSymmetric" /\ last.tamper = "none"
      /\ last.key = last.origin.key)
       => (last.res.ok /\ last.res.val = BytesOf(last.origin.data))

\* C2: every AES-GCM encryption uses a 12-byte IV that the call itself has
\* just drawn from the random source; no two encryptions under one key share
\* an IV, and two encryptions of the same data under one key differ in IV
\* and in ciphertext.
C2_FreshIv ==
  /\ \A i \in 1..Len(hostLog) :
       hostLog[i].call = "encrypt" =>
         /\ Len(hostLog[i].iv) = IvLen
         /\ i > 1
         /\ hostLog[i - 1].call = "getRandomValues"
         /\ hostLog[i - 1].output = hostLog[i].iv
         /\ \A j \in 1..(i - 1) :
              (hostLog[j].call = "encrypt" /\ hostLog[j].key = hostLog[i].key)
                => /\ hostLog[j].iv # hostLog[i].iv
                   /\ hostLog[j].input = hostLog[i].input
                        => hostLog[j].output # hostLog[i].output
  /\ \A b1, b2 \in blobs :
       (b1 # b2 /\ b1.res.ok /\ b2.res.ok /\ b1.key = b2.key
        /\ b1.data = b2.data)
         => /\ b1.res.val.iv # b2.res.val.iv
            /\ b1.res.val.ciphertext # b2.res.val.ciphertext

\* two encryptSymmetric calls on the same data under the same key have
\* returned, and so has an encryptFile call
C2_Witness ==
  /\ \E b1, b2 \in blobs :
       b1 # b2 /\ b1.res.ok /\ b2.res.ok /\ b1.key = b2.key
       /\ b1.data = b2.data
  /\ \E f \in files : f.res.ok
  /\ Len(SelectSeq(hostLog, LAMBDA e : e.call = "encrypt")) >= 4

\* C3: decryptSymmetric, under the key of the encryption, of a blob of which
\* one ciphertext bit was flipped fails with the cipher's error and returns
\* no plaintext.
C3_TamperDetected ==
  (last.op = "decryptSymmetric" /\ last.tamper = "bit")
    => /\ ~last.res.ok
       /\ last.res.err.name = "OperationError"
       /\ last.res.val = <<>>

\* a decryption of "hello world" with one ciphertext bit flipped has failed
C3_Witness ==
  /\ last.op = "decryptSymmetric"
  /\ last.tamper = "bit"
  /\ last.origin.data = JsBuffer(HelloWorld)
  /\ last.blob.ciphertext # last.origin.res.val.ciphertext
  /\ ~last.res.ok

\* C4: every encryptFile call returns a bundle, and decryptFile of that
\* bundle with the same password returns the file's content and a metadata
\* record with its name, size and media type.
C4_FileRoundTrip ==
  /\ \A f \in files : f.res.ok
  /\ (last.op = "decryptFile" /\ last.password = last.origin.password)
       => /\ last.res.ok
          /\ last.res.val.blob.bytes = last.origin.file.bytes
          /\ PropertyString(last.res.val.metadata, Text("originalName"))
               = last.origin.file.name
          /\ NumberOfText(PropertyText(last.res.val.metadata,
                                       Text("originalSize")))
               = last.origin.file.size
          /\ PropertyString(last.res.val.metadata, Text("mimeType"))
               = last.origin.file.type

\* C5: decryptFile with a password other than the one of the encryptFile
\* call, and retrieveKey with a password other than the one of the storeKey
\* call that wrote the entry, fail and return nothing.
C5_WrongPasswordFails ==
  /\ (last.op = "decryptFile" /\ last.password # last.origin.password)
       => (~last.res.ok /\ last.res.val = <<>>)
  /\ (last.op = "retrieveKey" /\ last.entry # <<>>
      /\ last.password # last.entry[1].password)
       => (~last.res.ok /\ last.res.val = <<>>)

\* retrieveKey has failed on a wrong password, and a bundle is at hand that
\* decryptFile refuses with the wrong password
C5_Witness ==
  /\ last.op = "retrieveKey"
  /\ last.entry # <<>>
  /\ last.password # last.entry[1].password
  /\ last.res.err.name = "OperationError"
  /\ \E f \in files :
       /\ f.res.ok
       /\ ~decryptFile(f.res.val, OtherPassword(f.password)).ok

C7_HybridRoundTrip ==
  (last.op = "decryptHybrid" /\ last.origin.op = "encryptHybrid")
    => IF last.pair = last.origin.pair
       THEN last.res.ok /\ last.res.val = BytesOf(last.origin.data)
       ELSE ~last.res.ok

\* C8: decryptHybrid of a bundle of encryptMessage, with the private key of
\* the recipient's pair, returns the message.
C8_MessageRoundTrip ==
  (last.op = "decryptHybrid" /\ last.origin.op = "encryptMessage"
   /\ last.pair = last.origin.pair)
    => last.res.ok /\ ab2str(last.res.val) = last.origin.data.v

\* the salt a deriveKeyFromPassword call used
SaltOf(d) == IF d.arg = <<>> THEN d.salt ELSE d.arg[1]

\* C9: two deriveKeyFromPassword calls with the same password and the same
\* salt return keys of the same raw material, and with the same password
\* and different salts keys of different raw material; a salt that is
\* passed is the salt returned.
C9_Deterministic ==
  \A d1, d2 \in derived :
    /\ d1.salt = SaltOf(d1)
    /\ d1.password = d2.password =>
         (SaltOf(d1) = SaltOf(d2)) = (d1.key.raw = d2.key.raw)

\* a password was used three times: twice with one salt, once with another
C9_Witness ==
  \E d1, d2, d3 \in derived :
    /\ d1.password = d2.password /\ d2.password = d3.password
    /\ d1.arg = <<>> /\ d2.arg = <<d1.salt>>
    /\ d3.salt # d1.salt

\* C10: two fingerprints are equal if and only if they are of equal
\* buffers.
C10_FingerprintIffEqual ==
  \A p1, p2 \in prints : (p1.res.val = p2.res.val) = (p1.data = p2.data)

\* C10, amended: two fingerprints have equal sha256 and size fields if and
\* only if they are of equal buffers.
C10_HashAndSizeIffEqual ==
  \A p1, p2 \in prints :
    /\ p1.res.ok
    /\ (/\ p1.res.val.sha256 = p2.res.val.sha256
        /\ p1.res.val.size = p2.res.val.size) = (p1.data = p2.data)

\* a buffer was fingerprinted at two readings of the clock, and so was
\* another buffer of the same size
C10_Witness ==
  \E p1, p2, p3 \in prints :
    /\ p1.data = p2.data
    /\ p1.res.val.timestamp # p2.res.val.timestamp
    /\ p3.data # p1.data
    /\ p3.res.val.size = p1.res.val.size

\* C11: retrieveKey fails with "Key not found", for any password, whenever
\* no item is stored under the id (never stored, or removed by the storage
\* collaborator), and it has then made no call to the host: no key
\* derivation, no decryption.
C11_KeyNotFound ==
  (last.op = "retrieveKey" /\ ItemName(last.keyId) \notin DOMAIN storage)
    => /\ ~last.res.ok
       /\ last.res.val = <<>>
       /\ last.res.err = [name |-> "Error", message |-> <<"Key not found">>]
       /\ last.res.trace = <<>>

\* retrieveKey was called for an id whose entry had been stored and then
\* removed
C11_Witness ==
  /\ last.op = "retrieveKey"
  /\ last.entry # <<>>
  /\ ItemName(last.keyId) \notin DOMAIN storage
  /\ ~last.res.ok

\* C12: every private key handle that generateAsymmetricKeyPair returned is
\* non-extractable, so that the host exports its material through no handle
\* the engine created.
C12_PrivateKeyNotExtractable ==
  \A keyPair \in pairs :
    /\ keyPair.privateKey.type = "private"
    /\ ~keyPair.privateKey.extractable

\* needle occurs in hay as a run of consecutive elements
Occurs(needle, hay) ==
  \E i \in 1..(Len(hay) - Len(needle) + 1) :
    SubSeq(hay, i, i + Len(needle) - 1) = needle

\* the item stored under name holds the raw material of the key of storeKey
\* call e only as its AES-GCM ciphertext under the key derived from the
\* password of e and the salt of the item, and holds neither that material,
\* nor the password, nor the wrapping key
WrappedOnly(name, e) ==
  LET keyData == JsonParseObject(storage[name])
  IN  /\ keyData.ok
      /\ EncryptedOf(keyData.val).ok
      /\ LET encrypted == EncryptedOf(keyData.val).val
             ciphertext == base642ab(encrypted.ciphertext).val
             iv == base642ab(encrypted.iv).val
             salt == base642ab(PropertyString(keyData.val, Text("salt"))).val
             wrapping == Pbkdf2(str2ab(e.password), salt, Iterations,
                                "SHA-256")
         IN  /\ Len(iv) = IvLen /\ Len(salt) = SaltLen
             /\ ciphertext = AesGcmEncrypt(wrapping, iv, e.key.raw)
             /\ ~Occurs(e.key.raw, ciphertext)
             /\ ~Occurs(ab2base64(e.key.raw).val, storage[name])
             /\ ~Occurs(ab2base64(wrapping).val, storage[name])
             /\ ~Occurs(e.password, storage[name])
             /\ ~Occurs(ab2base64(str2ab(e.password)).val, storage[name])

\* C13: whatever the engine has done, every item of the store was written
\* by a storeKey call that completed and holds the key's raw material only
\* as AES-GCM ciphertext under a password-derived wrapping key; and a call
\* that wrote to the store is a storeKey call.
C13_StoreHoldsCiphertextOnly ==
  /\ \A name \in DOMAIN storage :
       \E keyId \in KeyIds :
         /\ name = ItemName(keyId)
         /\ EntryOf(keyId) # <<>>
         /\ WrappedOnly(name, EntryOf(keyId)[1])
  /\ (\E i \in 1..Len(last.res.trace) : last.res.trace[i].call = "setItem")
       => last.op = "storeKey"

\* storeKey has written an item
C13_Witness ==
  /\ last.op = "storeKey"
  /\ last.res.ok
  /\ ItemName(last.keyId) \in DOMAIN storage

\* the host calls of trace in which AES-GCM refused to decrypt
FailedDecrypts(trace) ==
  {i \in 1..Len(trace) :
     /\ trace[i].call = "decrypt"
     /\ ~AesGcmDecrypt(trace[i].key, trace[i].iv, trace[i].input).ok}

\* C14: a decryptSymmetric, decryptFile or retrieveKey call in which a
\* step failed has failed as a whole, whatever the steps before had
\* decrypted (the metadata of a file whose content does not decrypt), and a
\* call that failed has returned nothing: no plaintext, no metadata, no key
\* handle.
C14_AllOrNothing ==
  last.op \in {"decryptSymmetric", "decryptFile", "retrieveKey"}
    => /\ FailedDecrypts(last.res.trace) # {} => ~last.res.ok
       /\ ~last.res.ok => last.res.val = <<>>

\* decryptFile has failed on the content blob after it had decrypted the
\* metadata blob
C14_Witness ==
  /\ last.op = "decryptFile"
  /\ last.tamper = "encryptedContent"
  /\ ~last.res.ok
  /\ \E i, j \in 1..Len(last.res.trace) :
       /\ i < j
       /\ last.res.trace[i].call = "decrypt"
       /\ last.res.trace[i].output # <<>>
       /\ j \in FailedDecrypts(last.res.trace)

\* the errors the engine itself makes, without anything of the error of a
\* primitive in them
EngineErrors ==
  {[name |-> "Error", message |-> <<"Key not found">>],
   [name |-> "Error", message |-> <<"File encryption failed: ">>],
   [name |-> "Error", message |-> <<"File decryption failed: ">>]}

\* C15: the error of every call that failed is an error the engine made:
\* the error of a primitive reaches the caller neither as it is nor as a
\* part of the message.
C15_ErrorsWrapped == ~last.res.ok => last.res.err \in EngineErrors

\* C16: a decryptSymmetric call that failed on a corrupted ciphertext or iv
\* has returned the very error that decryptSymmetric returns for the intact
\* blob under a wrong key.
C16_SameFailure ==
  (last.op = "decryptSymmetric" /\ last.tamper # "none" /\ ~last.res.ok)
    => \A key \in HeldKeys :
         key # last.origin.key
           => LET wrong == decryptSymmetric(last.origin.res.val, key)
              IN  ~wrong.ok /\ wrong.err = last.res.err

\* what the call returns when no other call is in flight
RunAlone(call) ==
  IF call.op = "encryptSymmetric"
  THEN encryptSymmetric(call.input, call.key, call.seed)
  ELSE decryptSymmetric(call.input, call.key)

\* C17: with encryptSymmetric and decryptSymmetric calls in flight together
\* in any interleaving, the fields of the engine instance are those the
\* constructor set, the calls have pairwise different IVs, and every call
\* that has returned has returned what it returns when it runs alone.
C17_NoSharedState ==
  /\ smpcrypto = constructor(FullHost)
  /\ \A c, d \in DOMAIN inflight :
       (/\ c # d
        /\ inflight[c].op = "encryptSymmetric"
        /\ inflight[d].op = "encryptSymmetric")
         => inflight[c].iv # inflight[d].iv
  /\ \A c \in DOMAIN inflight :
       inflight[c].done => inflight[c].res = RunAlone(inflight[c])

\* two encryptSymmetric calls that were in flight together have returned,
\* the later first, and a decryptSymmetric call started meanwhile has too
C17_Witness ==
  /\ Len(inflight) = 3
  /\ \A c \in DOMAIN inflight : inflight[c].done /\ inflight[c].res.ok
  /\ inflight[1].op = "encryptSymmetric"
  /\ inflight[2].op = "encryptSymmetric"
  /\ inflight[3].op = "decryptSymmetric"
  /\ inflight[1].resumedAt = 3
  /\ inflight[2].resumedAt = 2

\* the operations of the engine, among the calls the model makes at start-up
EngineOperations == {"generateSymmetricKey", "testEncryption"}

\* C18: in a host without window.crypto or without window.crypto.subtle, the
\* engine has reported it when the module was loaded, by failing to
\* construct, and no operation of the engine has been started.
C18_PrimitiveUnavailable ==
  ~(window.crypto /\ window.subtle)
    => /\ ~smpcrypto.ok
       /\ last.op \notin EngineOperations

\* a freshly generated key encrypts the test string and decrypts it back to
\* the same string
RoundTrips(seedKey, seedIv) ==
  LET key == generateSymmetricKey(seedKey)
      encrypted == encryptSymmetric(JsString(testData), key.val, seedIv)
      decrypted == decryptSymmetric(encrypted.val, key.val)
  IN  /\ key.ok
      /\ encrypted.ok
      /\ decrypted.ok
      /\ ab2str(decrypted.val) = testData

\* C19: testEncryption always returns, never raises, and what it returns is
\* a boolean: true when a freshly generated key encrypts the test string
\* and the host's decryption gives the bytes of that string back, false
\* when a step of that round trip fails.
C19_SelfTestIsBoolean ==
  last.op = "testEncryption"
    => /\ last.res.ok
       /\ last.res.err = NoError
       /\ last.res.val \in BOOLEAN
       /\ last.res.val = RoundTrips(last.seedKey, last.seedIv)
       /\ last.res.val
            => \E i \in DOMAIN last.res.trace :
                 /\ last.res.trace[i].call = "decrypt"
                 /\ last.res.trace[i].output = str2ab(testData)

\* the self test has passed, after the four calls of the round trip
C19_Witness ==
  /\ last.op = "testEncryption"
  /\ last.res.val = TRUE
  /\ Len(last.res.trace) = 4

\* the names of the members of a parsed object
MemberNames(members) == {members[k].name : k \in 1..Len(members)}

\* the string member name of a parsed object, <<>> when it is no string
StringMember(members, name) ==
  IF HasProperty(members, name) /\ IsStringText(PropertyText(members, name))
  THEN StringOfText(PropertyText(members, name))
  ELSE <<>>

\* a deriveKey call of trace took salt, and the key it gave made the
\* encrypt call of trace that gave ciphertext under iv
SealedUnder(trace, salt, iv, ciphertext) ==
  \E i, j \in 1..Len(trace) :
    /\ i < j
    /\ trace[i].call = "deriveKey"
    /\ trace[i].iv = salt
    /\ trace[j].call = "encrypt"
    /\ trace[j].key = trace[i].output
    /\ trace[j].iv = iv
    /\ trace[j].output = ciphertext

\* encrypted is exactly {ciphertext, iv, algorithm: "AES-GCM"}, and salt is
\* the salt of its wrapping key
BlobLayout(encrypted, salt, trace) ==
  /\ encrypted.ok
  /\ Len(encrypted.val) = 3
  /\ MemberNames(encrypted.val)
       = {Text("ciphertext"), Text("iv"), Text("algorithm")}
  /\ StringMember(encrypted.val, Text("algorithm"))
       = <<65, 69, 83, 45, 71, 67, 77>>
  /\ salt.ok
  /\ Len(salt.val) = SaltLen
  /\ base642ab(StringMember(encrypted.val, Text("iv"))).ok
  /\ base642ab(StringMember(encrypted.val, Text("ciphertext"))).ok
  /\ SealedUnder(trace, salt.val,
                 base642ab(StringMember(encrypted.val, Text("iv"))).val,
                 base642ab(StringMember(encrypted.val,
                                        Text("ciphertext"))).val)

\* keyData is exactly {encrypted, salt, timestamp}
KeyDataLayout(keyData, trace) ==
  /\ keyData.ok
  /\ Len(keyData.val) = 3
  /\ MemberNames(keyData.val)
       = {Text("encrypted"), Text("salt"), Text("timestamp")}
  /\ IsObjectText(PropertyText(keyData.val, Text("encrypted")))
  /\ StringMember(keyData.val, Text("timestamp"))
       \in {toISOString(t) : t \in 0..MaxTime}
  /\ BlobLayout(JsonParseObject(PropertyText(keyData.val, Text("encrypted"))),
                base642ab(StringMember(keyData.val, Text("salt"))),
                trace)

\* text is the JSON of {encrypted: {ciphertext, iv, algorithm: "AES-GCM"},
\* salt, timestamp}, with no other member, and salt is the salt of the
\* deriveKey call of trace whose key made the encrypt call of trace that
\* gave ciphertext under iv
HasLayout(text, trace) == KeyDataLayout(JsonParseObject(text), trace)

\* C20: every item of the store is under "smp_civic_" followed by the id
\* of the storeKey call that wrote it, has exactly the members encrypted
\* (with ciphertext, iv and algorithm "AES-GCM"), salt and timestamp, and
\* its salt is the one from which that call derived the key that encrypted
\* its ciphertext.
C20_PersistedLayout ==
  \A name \in DOMAIN storage :
    \E keyId \in KeyIds :
      /\ name = <<115, 109, 112, 95, 99, 105, 118, 105, 99, 95>> \o keyId
      /\ EntryOf(keyId) # <<>>
      /\ HasLayout(storage[name], EntryOf(keyId)[1].res.trace)

\* storeKey has written an item that the store still holds, and a later
\* call has completed
C20_Witness ==
  /\ \E e \in 1..Len(vault) :
       /\ vault[e].res.ok
       /\ (this.keyPrefix \o vault[e].keyId) \in DOMAIN storage
  /\ last.op = "retrieveKey"
  /\ last.res.ok

\* the handles that deriveKeyFromPassword has returned and the one that
\* retrieveKey has just returned
ReturnedHandles ==
  {d.key : d \in derived}
    \cup (IF last.op = "retrieveKey" /\ last.res.ok THEN {last.res.val}
          ELSE {})

\* the host call e gives out the raw material of key
GivesOut(e, key) ==
  e.call \in {"exportKey", "setItem"}
    /\ (e.output = key.raw \/ Occurs(key.raw, e.input))

\* C21: every handle that deriveKeyFromPassword or retrieveKey has returned
\* is a secret key that is not extractable: subtle.exportKey refuses it, and
\* a storeKey call on such a handle has failed without exporting or storing
\* its raw material.
C21_NonExportable ==
  /\ \A key \in ReturnedHandles :
       /\ key.type = "secret"
       /\ ~key.extractable
       /\ ~subtleExportRaw(key).ok
       /\ subtleExportRaw(key).val = <<>>
  /\ (last.op = "storeKey" /\ last.key \notin keys)
       => /\ ~last.res.ok
          /\ \A i \in 1..Len(last.res.trace) :
               ~GivesOut(last.res.trace[i], last.key)

\* storeKey was called with the handle that retrieveKey had returned, and a
\* derived handle is held too
C21_Witness ==
  /\ last.op = "storeKey"
  /\ last.key \notin HeldKeys
  /\ derived # {}

\* the texts and the numbers of a bundle of encryptFile that are not
\* ciphertext
ClearTexts(bundle) ==
  {bundle.salt, bundle.fileFingerprint.sha256,
   bundle.fileFingerprint.timestamp, bundle.encryptedContent.iv,
   bundle.encryptedContent.algorithm, bundle.encryptedMetadata.iv,
   bundle.encryptedMetadata.algorithm}

ClearNumbers(bundle) == {bundle.fileFingerprint.size}

\* C22: what a file encryption has returned shows the name, the size and
\* the media type of the file in no field other than a ciphertext: for
\* encryptFile, no text of the bundle outside the two ciphertexts holds the
\* name or the type and no number is the size; for the dashboard's
\* encryptSelectedFile, what is offered for download has no member beside
\* the ciphertext, the IV and the salt, under a name without the file's.
C22_MetadataOnlyEncrypted ==
  /\ (last.op = "encryptFile" /\ last.res.ok)
       => /\ \A text \in ClearTexts(last.res.val) :
               /\ ~Occurs(last.file.name, text)
               /\ last.file.type # <<>> => ~Occurs(last.file.type, text)
          /\ last.file.size \notin ClearNumbers(last.res.val)
  /\ (last.op = "encryptSelectedFile" /\ last.res.val # <<>>)
       => /\ DOMAIN last.res.val[1].encryptedData
               = {"encrypted", "iv", "salt"}
          /\ ~Occurs(last.selectedFile[1].name, last.res.val[1].download)

\* the positions in trace of the host calls named call
CallsOf(trace, call) == {i \in 1..Len(trace) : trace[i].call = call}

\* C23: in every encryptFile call that has completed, the key was derived
\* first, then the digest of the plaintext file bytes was taken, then the
\* content was encrypted, then the metadata: no encryption precedes the
\* digest, and the digest is over the file's bytes.
C23_FingerprintBeforeEncryption ==
  (last.op = "encryptFile" /\ last.res.ok)
    => LET trace == last.res.trace
       IN  /\ CallsOf(trace, "deriveKey") # {}
           /\ CallsOf(trace, "digest") # {}
           /\ Cardinality(CallsOf(trace, "encrypt")) = 2
           /\ \A h \in CallsOf(trace, "digest") :
                /\ trace[h].input = last.file.bytes
                /\ \A d \in CallsOf(trace, "deriveKey") : d < h
                /\ \A c \in CallsOf(trace, "encrypt") : h < c
           /\ \E c, m \in CallsOf(trace, "encrypt") :
                /\ c < m
                /\ trace[c].input = last.file.bytes
                /\ trace[m].input # last.file.bytes

\* the raw material of the symmetric key an encryptHybrid call generated
SessionKey(trace) ==
  trace[CHOOSE g \in CallsOf(trace, "generateKey") : TRUE].key

\* in the call of trace that returned bundle for publicKey, one key was
\* generated, it encrypted the data of the bundle, its exported material
\* is what RSA-OAEP encrypted under publicKey into encryptedKey, and it is
\* neither in the bundle nor written to the store
SealsSessionKey(trace, bundle, publicKey, raw) ==
  /\ Cardinality(CallsOf(trace, "generateKey")) = 1
  /\ Len(raw) = KeyLen
  /\ \E c \in CallsOf(trace, "encrypt") :
       /\ trace[c].key = raw
       /\ trace[c].output = base642ab(bundle.encryptedData.ciphertext).val
       /\ \A d \in CallsOf(trace, "encrypt") : d = c
  /\ \E x \in CallsOf(trace, "exportKey"), w \in CallsOf(trace, "encryptRsa") :
       /\ x < w
       /\ trace[x].output = raw
       /\ trace[w].input = raw
       /\ trace[w].key = publicKey.raw
       /\ trace[w].output = base642ab(bundle.encryptedKey).val
  /\ CallsOf(trace, "setItem") = {}
  /\ ~Occurs(raw, base642ab(bundle.encryptedKey).val)
  /\ ~Occurs(raw, base642ab(bundle.encryptedData.ciphertext).val)
  /\ \A member \in DOMAIN bundle :
       member \in {"encryptedKey", "encryptedData", "algorithm", "timestamp",
                   "messageId"}

\* C24: every bundle of encryptHybrid (also when encryptMessage called it)
\* comes from a call that generated one symmetric key, encrypted the data
\* with it and RSA-OAEP-encrypted its raw material under the recipient's
\* public key into encryptedKey; the key is in no member of the bundle, in
\* no field of the engine and in no item of the store, and two calls have
\* different keys.
C24_EphemeralKey ==
  /\ smpcrypto = constructor(FullHost)
  /\ DOMAIN storage = {}
  /\ \A b \in bundles :
       b.res.ok
         => SealsSessionKey(b.res.trace, b.res.val, b.pair.publicKey,
                            SessionKey(b.res.trace))
  /\ \A b1, b2 \in bundles :
       (b1.res.ok /\ b2.res.ok /\ b1 # b2)
         => SessionKey(b1.res.trace) # SessionKey(b2.res.trace)

\* two encryptHybrid calls have returned bundles for the same recipient
C24_Witness ==
  \E b1, b2 \in bundles :
    /\ b1 # b2
    /\ b1.res.ok
    /\ b2.res.ok
    /\ b1.op = "encryptHybrid"
    /\ b2.op = "encryptHybrid"
    /\ b1.pair = b2.pair

\* the fingerprint that the verifyFileIntegrity call of last was given
ExpectedOf(call) ==
  IF "expected" \in DOMAIN call THEN call.expected ELSE call.origin.res.val

\* verifyFileIntegrity of fileBuffer against expected has returned result:
\* true exactly when the SHA-256 and the length of the buffer are those of
\* expected, whatever the timestamp of expected
VerifiedAs(fileBuffer, expected, result) ==
  /\ result \in BOOLEAN
  /\ result = (/\ ab2base64(Sha256(fileBuffer)).val = expected.sha256
               /\ Len(fileBuffer) = expected.size)
  /\ \A t \in 0..(MaxTime + 1) :
       verifyFileIntegrity(fileBuffer,
                           [expected EXCEPT !.timestamp = toISOString(t)],
                           now).val = result

\* C25: every verifyFileIntegrity call has returned true exactly when the
\* SHA-256 hash and the byte length of the buffer both equal those of the
\* fingerprint it was given, whatever the fingerprint's timestamp; and a
\* buffer verifies against its own fingerprint.
C25_VerifyIntegrity ==
  last.op = "verifyFileIntegrity"
    => /\ last.res.ok
       /\ VerifiedAs(last.data, ExpectedOf(last), last.res.val)
       /\ (last.data = last.origin.data /\ "expected" \notin DOMAIN last)
            => last.res.val = TRUE

\* a buffer failed against the fingerprint of its own bytes with the size
\* replaced, the clock having advanced since the fingerprint was made
C25_Witness ==
  /\ last.op = "verifyFileIntegrity"
  /\ "expected" \in DOMAIN last
  /\ last.data = last.origin.data
  /\ last.expected.sha256 = last.origin.res.val.sha256
  /\ last.expected.size # last.origin.res.val.size
  /\ last.res.val = FALSE
  /\ toISOString(now) # last.origin.res.val.timestamp

\* the storeKey calls in flight that have written under keyId
WritersOf(keyId) ==
  {c \in DOMAIN inflight :
     /\ inflight[c].op = "storeKey"
     /\ inflight[c].done
     /\ inflight[c].res.ok
     /\ inflight[c].keyId = keyId}

\* r gives out a handle on the bytes of key
Retrieves(r, key) == r.ok /\ r.val.raw = key.raw

\* the item stored under the id of call is the one that call wrote, whole:
\* the call has done what it does alone, the item is the text of its
\* setItem, laid out from its own salt, iv and ciphertext, and retrieveKey
\* with its password gives its key
StoredWholeBy(call) ==
  /\ call.res = storeKey(call.keyId, call.key, call.password, call.seedSalt,
                         call.seedIv, call.t)
  /\ \E w \in CallsOf(call.res.trace, "setItem") :
       call.res.trace[w].input = storage[ItemName(call.keyId)]
  /\ HasLayout(storage[ItemName(call.keyId)], call.res.trace)
  /\ Retrieves(retrieveKey(call.keyId, call.password, storage), call.key)

\* C26: with storeKey calls in flight together in any interleaving, every
\* item of the store is the whole entry of the call that wrote last under
\* its id, with the ciphertext, the iv and the salt of that one call, and
\* that call's password retrieves that call's key.
C26_LastWriterWins ==
  \A name \in DOMAIN storage :
    \E keyId \in KeyIds :
      /\ name = ItemName(keyId)
      /\ \E c \in WritersOf(keyId) :
           /\ \A d \in WritersOf(keyId) :
                inflight[d].writtenAt <= inflight[c].writtenAt
           /\ StoredWholeBy(inflight[c])

\* two storeKey calls for the same id, with different keys and passwords,
\* were in flight together, and the one started first has written last
C26_Witness ==
  /\ Len(inflight) = 2
  /\ inflight[1].op = "storeKey"
  /\ inflight[2].op = "storeKey"
  /\ inflight[1].keyId = inflight[2].keyId
  /\ inflight[1].key # inflight[2].key
  /\ inflight[1].password # inflight[2].password
  /\ inflight[1].seedIv > inflight[2].seedSalt
  /\ inflight[2].writtenAt = 1
  /\ inflight[1].writtenAt = 2

\* the text that the storeKey call with result r gave to setItem
ItemWrittenBy(r) ==
  r.trace[CHOOSE w \in CallsOf(r.trace, "setItem") : TRUE].input

\* the item under the id of the storeKey call entry is what that call wrote
HoldsItemOf(entry) ==
  /\ ItemName(entry.keyId) \in DOMAIN storage
  /\ storage[ItemName(entry.keyId)] = ItemWrittenBy(entry.res)

\* the completed storeKey calls made after call i for the id of call i
LaterStoresFor(i) ==
  {j \in DOMAIN vault :
     j > i /\ vault[j].res.ok /\ vault[j].keyId = vault[i].keyId}

\* C27: after storeKey(id, k1, pw1) and then storeKey(id, k2, pw2) with
\* another password, the store has one item under id, the one of the later
\* call: retrieveKey(id, pw2) gives the bytes of k2 and retrieveKey(id, pw1)
\* fails; storeKey calls for other ids leave the item as it was, and the
\* store has no item that no call wrote.
C27_StoreReplaces ==
  /\ DOMAIN storage =
       {ItemName(vault[i].keyId) : i \in {j \in DOMAIN vault : vault[j].res.ok}}
  /\ \A i \in DOMAIN vault :
       vault[i].res.ok =>
         /\ (LaterStoresFor(i) = {}) =>
              /\ HoldsItemOf(vault[i])
              /\ Retrieves(retrieveKey(vault[i].keyId, vault[i].password,
                                       storage), vault[i].key)
         /\ (LaterStoresFor(i) # {}) => ~HoldsItemOf(vault[i])
         /\ (\A j \in LaterStoresFor(i) :
                vault[j].password # vault[i].password) =>
              \/ LaterStoresFor(i) = {}
              \/ ~retrieveKey(vault[i].keyId, vault[i].password, storage).ok

\* a second storeKey call has stored another key under the id of the first,
\* with another password
C27_Witness ==
  /\ Len(vault) = 2
  /\ vault[1].res.ok
  /\ vault[2].res.ok
  /\ vault[1].keyId = vault[2].keyId
  /\ vault[1].key # vault[2].key
  /\ vault[1].password # vault[2].password
  /\ Cardinality(DOMAIN storage) = 1
  /\ last.op = "storeKey"

\* the storeKey calls made so far that completed
StoresDone == {i \in DOMAIN vault : vault[i].res.ok}

\* the last completed storeKey call for the item called name
LastStoreTo(name) ==
  CHOOSE i \in StoresDone :
    /\ ItemName(vault[i].keyId) = name
    /\ \A j \in StoresDone : ItemName(vault[j].keyId) = name => j <= i

\* the storeKey call with result r stopped at exportKey: it made no host
\* call after it, so it encrypted nothing and wrote nothing
StoppedAtExport(r) ==
  /\ ~r.ok
  /\ r.trace # <<>>
  /\ r.trace[Len(r.trace)].call = "exportKey"
  /\ CallsOf(r.trace, "encrypt") = {}

\* C28: a storeKey call that fails has made no storage write, and a call
\* that completes has made one, as its last host call: the store is what
\* the completed calls alone have left, an item a failed call was aimed at
\* included.  storeKey on a handle that is not exportable fails at the
\* export step.
C28_FailedStoreWritesNothing ==
  /\ \A i \in DOMAIN vault :
       /\ ~vault[i].res.ok => CallsOf(vault[i].res.trace, "setItem") = {}
       /\ vault[i].res.ok =>
            CallsOf(vault[i].res.trace, "setItem") = {Len(vault[i].res.trace)}
       /\ ~vault[i].key.extractable => StoppedAtExport(vault[i].res)
  /\ DOMAIN storage = {ItemName(vault[i].keyId) : i \in StoresDone}
  /\ \A name \in DOMAIN storage :
       storage[name] = ItemWrittenBy(vault[LastStoreTo(name)].res)

\* storeKey on the handle that retrieveKey returned has failed, for the id
\* under which the key is stored, and the item is the one stored before
C28_Witness ==
  /\ Len(vault) = 2
  /\ vault[1].res.ok
  /\ ~vault[2].res.ok
  /\ ~vault[2].key.extractable
  /\ vault[2].key.raw = vault[1].key.raw
  /\ vault[2].keyId = vault[1].keyId
  /\ last.op = "storeKey"
  /\ storage[ItemName(vault[2].keyId)] = ItemWrittenBy(vault[1].res)

\* the item that the storeKey call entry wrote is in store, and retrieveKey
\* with the password of that call gives its key
StillRetrieves(entry, store) ==
  /\ ItemName(entry.keyId) \in DOMAIN store
  /\ store[ItemName(entry.keyId)] = ItemWrittenBy(entry.res)
  /\ Retrieves(retrieveKey(entry.keyId, entry.password, store), entry.key)

\* C29: a retrieveKey call, completed or failed, with the right or a wrong
\* password, makes no storage write and leaves the store as it was: an item
\* that gave its key before the call is there after it, the same text, and
\* still gives its key.
C29_RetrieveKeyReadsOnly ==
  [][(last'.op = "retrieveKey" /\ last' # last) =>
       /\ CallsOf(last'.res.trace, "setItem") = {}
       /\ storage' = storage
       /\ \A i \in DOMAIN vault :
            StillRetrieves(vault[i], storage) =>
              StillRetrieves(vault[i], storage')]_vars

\* retrieveKey has failed with a wrong password for a stored key, and the
\* item still gives the key with the right one
C29_Witness ==
  /\ last.op = "retrieveKey"
  /\ ~last.res.ok
  /\ last.entry # <<>>
  /\ last.password # last.entry[1].password
  /\ StillRetrieves(last.entry[1], storage)

\* the fingerprint that encryptFile put in the bundle of the last call
MadeFingerprint == last.origin.res.val.fileFingerprint

\* decryptFile has returned the content and the metadata of the bundle as
\* encryptFile made it, without a digest call of its own
ReturnsOriginal(r) ==
  /\ r.ok
  /\ r.val.blob.bytes = last.origin.file.bytes
  /\ r.val.metadata = decryptFile(last.origin.res.val, last.password).val.metadata
  /\ PropertyString(r.val.metadata, Text("originalName")) = last.origin.file.name
  /\ CallsOf(r.trace, "digest") = {}

\* C30: decryptFile with the right password on a bundle whose fingerprint
\* was replaced completes, returns the original content and metadata and
\* the replaced fingerprint as given, and makes no digest call; the
\* verifyFileIntegrity call the caller makes afterwards returns false when
\* the hash or the size was replaced.
C30_FingerprintNotChecked ==
  /\ (last.op = "decryptFile" /\ last.tamper = "fileFingerprint") =>
       /\ ReturnsOriginal(last.res)
       /\ last.res.val.fingerprint \in Altered(MadeFingerprint)
       /\ last.res.val.fingerprint # MadeFingerprint
  /\ (last.op = "verifyFileIntegrity") =>
       /\ last.res.ok
       /\ last.res.val = (/\ last.expected.sha256 = MadeFingerprint.sha256
                          /\ last.expected.size = MadeFingerprint.size)
       /\ last.tamper = "none" => last.res.val

\* decryptFile has completed on a bundle with the hash of its fingerprint
\* replaced, and the caller's verifyFileIntegrity has then returned false
C30_Witness ==
  /\ last.op = "verifyFileIntegrity"
  /\ last.tamper = "fileFingerprint"
  /\ last.expected.sha256 # MadeFingerprint.sha256
  /\ last.expected.size = MadeFingerprint.size
  /\ last.res.ok
  /\ ~last.res.val

=============================================================================
